---------------------------- MODULE Spec2Model ----------------------------
(***************************************************************************)
(* LazyQuery schema conversion: SchemaConverter.convertToPrisma and the    *)
(* parsers it drives (PrismaParser, SqlToPrismaConverter,                  *)
(* JsonToPrismaConverter).                                                 *)
(*                                                                         *)
(* Text is a sequence of one-character strings, so that the regular        *)
(* expressions of the source are modelled by what they match, character by *)
(* character.  <<"i","d">> is the JavaScript string "id".                  *)
(***************************************************************************)
EXTENDS Integers, Sequences, FiniteSets, TLC

-----------------------------------------------------------------------------
(* Characters and the JavaScript string primitives the source uses.        *)

LowerSeq ==
    <<"a","b","c","d","e","f","g","h","i","j","k","l","m",
      "n","o","p","q","r","s","t","u","v","w","x","y","z">>

UpperSeq ==
    <<"A","B","C","D","E","F","G","H","I","J","K","L","M",
      "N","O","P","Q","R","S","T","U","V","W","X","Y","Z">>

Lower == {LowerSeq[i] : i \in 1..26}

Upper == {UpperSeq[i] : i \in 1..26}

Digit == {"0","1","2","3","4","5","6","7","8","9"}

\* the regular-expression class \w
WordChar == Lower \cup Upper \cup Digit \cup {"_"}

\* A character (a UTF-16 code unit) is a string: the character itself, or
\* "U+" and the four hexadecimal digits of its code when a string cannot
\* hold it (the grave accent and the codes above 00FF whose low byte is
\* below 80).

\* the regular-expression class \s, and what String.prototype.trim removes:
\* the white space and the line terminators
Space ==
    {" ", "\n", "\t", "\r", "\f", "", " ", " ", "﻿",
     "U+2000", "U+2001", "U+2002", "U+2003", "U+2004", "U+2005", "U+2006",
     "U+2007", "U+2008", "U+2009", "U+200A", "U+2028", "U+2029", "U+202F",
     "U+205F", "U+3000"}

LowerOf == [c \in Upper |-> LowerSeq[CHOOSE i \in 1..26 : UpperSeq[i] = c]]

UpperOf == [c \in Lower |-> UpperSeq[CHOOSE i \in 1..26 : LowerSeq[i] = c]]

ToLowerChar(c) == IF c \in Upper THEN LowerOf[c] ELSE c

ToUpperChar(c) == IF c \in Lower THEN UpperOf[c] ELSE c

\* A text is the sequence of its UTF-16 code units, a character outside the
\* Basic Multilingual Plane being a high surrogate and a low surrogate.  The
\* tables of the case conversions are those of Unicode 17.
HighSurrogates == 
    {"U+D800","U+D801","U+D802","U+D803","U+D804","U+D805","U+D806","U+D807","U+D808","U+D809",
     "U+D80A","U+D80B","U+D80C","U+D80D","U+D80E","U+D80F","U+D810","U+D811","U+D812","U+D813",
     "U+D814","U+D815","U+D816","U+D817","U+D818","U+D819","U+D81A","U+D81B","U+D81C","U+D81D",
     "U+D81E","U+D81F","U+D820","U+D821","U+D822","U+D823","U+D824","U+D825","U+D826","U+D827",
     "U+D828","U+D829","U+D82A","U+D82B","U+D82C","U+D82D","U+D82E","U+D82F","U+D830","U+D831",
     "U+D832","U+D833","U+D834","U+D835","U+D836","U+D837","U+D838","U+D839","U+D83A","U+D83B",
     "U+D83C","U+D83D","U+D83E","U+D83F","U+D840","U+D841","U+D842","U+D843","U+D844","U+D845",
     "U+D846","U+D847","U+D848","U+D849","U+D84A","U+D84B","U+D84C","U+D84D","U+D84E","U+D84F",
     "U+D850","U+D851","U+D852","U+D853","U+D854","U+D855","U+D856","U+D857","U+D858","U+D859",
     "U+D85A","U+D85B","U+D85C","U+D85D","U+D85E","U+D85F","U+D860","U+D861","U+D862","U+D863",
     "U+D864","U+D865","U+D866","U+D867","U+D868","U+D869","U+D86A","U+D86B","U+D86C","U+D86D",
     "U+D86E","U+D86F","U+D870","U+D871","U+D872","U+D873","U+D874","U+D875","U+D876","U+D877",
     "U+D878","U+D879","U+D87A","U+D87B","U+D87C","U+D87D","U+D87E","U+D87F","U+D880","U+D881",
     "U+D882","U+D883","U+D884","U+D885","U+D886","U+D887","U+D888","U+D889","U+D88A","U+D88B",
     "U+D88C","U+D88D","U+D88E","U+D88F","U+D890","U+D891","U+D892","U+D893","U+D894","U+D895",
     "U+D896","U+D897","U+D898","U+D899","U+D89A","U+D89B","U+D89C","U+D89D","U+D89E","U+D89F",
     "U+D8A0","U+D8A1","U+D8A2","U+D8A3","U+D8A4","U+D8A5","U+D8A6","U+D8A7","U+D8A8","U+D8A9",
     "U+D8AA","U+D8AB","U+D8AC","U+D8AD","U+D8AE","U+D8AF","U+D8B0","U+D8B1","U+D8B2","U+D8B3",
     "U+D8B4","U+D8B5","U+D8B6","U+D8B7","U+D8B8","U+D8B9","U+D8BA","U+D8BB","U+D8BC","U+D8BD",
     "U+D8BE","U+D8BF","U+D8C0","U+D8C1","U+D8C2","U+D8C3","U+D8C4","U+D8C5","U+D8C6","U+D8C7",
     "U+D8C8","U+D8C9","U+D8CA","U+D8CB","U+D8CC","U+D8CD","U+D8CE","U+D8CF","U+D8D0","U+D8D1",
     "U+D8D2","U+D8D3","U+D8D4","U+D8D5","U+D8D6","U+D8D7","U+D8D8","U+D8D9","U+D8DA","U+D8DB",
     "U+D8DC","U+D8DD","U+D8DE","U+D8DF","U+D8E0","U+D8E1","U+D8E2","U+D8E3","U+D8E4","U+D8E5",
     "U+D8E6","U+D8E7","U+D8E8","U+D8E9","U+D8EA","U+D8EB","U+D8EC","U+D8ED","U+D8EE","U+D8EF",
     "U+D8F0","U+D8F1","U+D8F2","U+D8F3","U+D8F4","U+D8F5","U+D8F6","U+D8F7","U+D8F8","U+D8F9",
     "U+D8FA","U+D8FB","U+D8FC","U+D8FD","U+D8FE","U+D8FF","U+D900","U+D901","U+D902","U+D903",
     "U+D904","U+D905","U+D906","U+D907","U+D908","U+D909","U+D90A","U+D90B","U+D90C","U+D90D",
     "U+D90E","U+D90F","U+D910","U+D911","U+D912","U+D913","U+D914","U+D915","U+D916","U+D917",
     "U+D918","U+D919","U+D91A","U+D91B","U+D91C","U+D91D","U+D91E","U+D91F","U+D920","U+D921",
     "U+D922","U+D923","U+D924","U+D925","U+D926","U+D927","U+D928","U+D929","U+D92A","U+D92B",
     "U+D92C","U+D92D","U+D92E","U+D92F","U+D930","U+D931","U+D932","U+D933","U+D934","U+D935",
     "U+D936","U+D937","U+D938","U+D939","U+D93A","U+D93B","U+D93C","U+D93D","U+D93E","U+D93F",
     "U+D940","U+D941","U+D942","U+D943","U+D944","U+D945","U+D946","U+D947","U+D948","U+D949",
     "U+D94A","U+D94B","U+D94C","U+D94D","U+D94E","U+D94F","U+D950","U+D951","U+D952","U+D953",
     "U+D954","U+D955","U+D956","U+D957","U+D958","U+D959","U+D95A","U+D95B","U+D95C","U+D95D",
     "U+D95E","U+D95F","U+D960","U+D961","U+D962","U+D963","U+D964","U+D965","U+D966","U+D967",
     "U+D968","U+D969","U+D96A","U+D96B","U+D96C","U+D96D","U+D96E","U+D96F","U+D970","U+D971",
     "U+D972","U+D973","U+D974","U+D975","U+D976","U+D977","U+D978","U+D979","U+D97A","U+D97B",
     "U+D97C","U+D97D","U+D97E","U+D97F","U+D980","U+D981","U+D982","U+D983","U+D984","U+D985",
     "U+D986","U+D987","U+D988","U+D989","U+D98A","U+D98B","U+D98C","U+D98D","U+D98E","U+D98F",
     "U+D990","U+D991","U+D992","U+D993","U+D994","U+D995","U+D996","U+D997","U+D998","U+D999",
     "U+D99A","U+D99B","U+D99C","U+D99D","U+D99E","U+D99F","U+D9A0","U+D9A1","U+D9A2","U+D9A3",
     "U+D9A4","U+D9A5","U+D9A6","U+D9A7","U+D9A8","U+D9A9","U+D9AA","U+D9AB","U+D9AC","U+D9AD",
     "U+D9AE","U+D9AF","U+D9B0","U+D9B1","U+D9B2","U+D9B3","U+D9B4","U+D9B5","U+D9B6","U+D9B7",
     "U+D9B8","U+D9B9","U+D9BA","U+D9BB","U+D9BC","U+D9BD","U+D9BE","U+D9BF","U+D9C0","U+D9C1",
     "U+D9C2","U+D9C3","U+D9C4","U+D9C5","U+D9C6","U+D9C7","U+D9C8","U+D9C9","U+D9CA","U+D9CB",
     "U+D9CC","U+D9CD","U+D9CE","U+D9CF","U+D9D0","U+D9D1","U+D9D2","U+D9D3","U+D9D4","U+D9D5",
     "U+D9D6","U+D9D7","U+D9D8","U+D9D9","U+D9DA","U+D9DB","U+D9DC","U+D9DD","U+D9DE","U+D9DF",
     "U+D9E0","U+D9E1","U+D9E2","U+D9E3","U+D9E4","U+D9E5","U+D9E6","U+D9E7","U+D9E8","U+D9E9",
     "U+D9EA","U+D9EB","U+D9EC","U+D9ED","U+D9EE","U+D9EF","U+D9F0","U+D9F1","U+D9F2","U+D9F3",
     "U+D9F4","U+D9F5","U+D9F6","U+D9F7","U+D9F8","U+D9F9","U+D9FA","U+D9FB","U+D9FC","U+D9FD",
     "U+D9FE","U+D9FF","U+DA00","U+DA01","U+DA02","U+DA03","U+DA04","U+DA05","U+DA06","U+DA07",
     "U+DA08","U+DA09","U+DA0A","U+DA0B","U+DA0C","U+DA0D","U+DA0E","U+DA0F","U+DA10","U+DA11",
     "U+DA12","U+DA13","U+DA14","U+DA15","U+DA16","U+DA17","U+DA18","U+DA19","U+DA1A","U+DA1B",
     "U+DA1C","U+DA1D","U+DA1E","U+DA1F","U+DA20","U+DA21","U+DA22","U+DA23","U+DA24","U+DA25",
     "U+DA26","U+DA27","U+DA28","U+DA29","U+DA2A","U+DA2B","U+DA2C","U+DA2D","U+DA2E","U+DA2F",
     "U+DA30","U+DA31","U+DA32","U+DA33","U+DA34","U+DA35","U+DA36","U+DA37","U+DA38","U+DA39",
     "U+DA3A","U+DA3B","U+DA3C","U+DA3D","U+DA3E","U+DA3F","U+DA40","U+DA41","U+DA42","U+DA43",
     "U+DA44","U+DA45","U+DA46","U+DA47","U+DA48","U+DA49","U+DA4A","U+DA4B","U+DA4C","U+DA4D",
     "U+DA4E","U+DA4F","U+DA50","U+DA51","U+DA52","U+DA53","U+DA54","U+DA55","U+DA56","U+DA57",
     "U+DA58","U+DA59","U+DA5A","U+DA5B","U+DA5C","U+DA5D","U+DA5E","U+DA5F","U+DA60","U+DA61",
     "U+DA62","U+DA63","U+DA64","U+DA65","U+DA66","U+DA67","U+DA68","U+DA69","U+DA6A","U+DA6B",
     "U+DA6C","U+DA6D","U+DA6E","U+DA6F","U+DA70","U+DA71","U+DA72","U+DA73","U+DA74","U+DA75",
     "U+DA76","U+DA77","U+DA78","U+DA79","U+DA7A","U+DA7B","U+DA7C","U+DA7D","U+DA7E","U+DA7F",
     "U+DA80","U+DA81","U+DA82","U+DA83","U+DA84","U+DA85","U+DA86","U+DA87","U+DA88","U+DA89",
     "U+DA8A","U+DA8B","U+DA8C","U+DA8D","U+DA8E","U+DA8F","U+DA90","U+DA91","U+DA92","U+DA93",
     "U+DA94","U+DA95","U+DA96","U+DA97","U+DA98","U+DA99","U+DA9A","U+DA9B","U+DA9C","U+DA9D",
     "U+DA9E","U+DA9F","U+DAA0","U+DAA1","U+DAA2","U+DAA3","U+DAA4","U+DAA5","U+DAA6","U+DAA7",
     "U+DAA8","U+DAA9","U+DAAA","U+DAAB","U+DAAC","U+DAAD","U+DAAE","U+DAAF","U+DAB0","U+DAB1",
     "U+DAB2","U+DAB3","U+DAB4","U+DAB5","U+DAB6","U+DAB7","U+DAB8","U+DAB9","U+DABA","U+DABB",
     "U+DABC","U+DABD","U+DABE","U+DABF","U+DAC0","U+DAC1","U+DAC2","U+DAC3","U+DAC4","U+DAC5",
     "U+DAC6","U+DAC7","U+DAC8","U+DAC9","U+DACA","U+DACB","U+DACC","U+DACD","U+DACE","U+DACF",
     "U+DAD0","U+DAD1","U+DAD2","U+DAD3","U+DAD4","U+DAD5","U+DAD6","U+DAD7","U+DAD8","U+DAD9",
     "U+DADA","U+DADB","U+DADC","U+DADD","U+DADE","U+DADF","U+DAE0","U+DAE1","U+DAE2","U+DAE3",
     "U+DAE4","U+DAE5","U+DAE6","U+DAE7","U+DAE8","U+DAE9","U+DAEA","U+DAEB","U+DAEC","U+DAED",
     "U+DAEE","U+DAEF","U+DAF0","U+DAF1","U+DAF2","U+DAF3","U+DAF4","U+DAF5","U+DAF6","U+DAF7",
     "U+DAF8","U+DAF9","U+DAFA","U+DAFB","U+DAFC","U+DAFD","U+DAFE","U+DAFF","U+DB00","U+DB01",
     "U+DB02","U+DB03","U+DB04","U+DB05","U+DB06","U+DB07","U+DB08","U+DB09","U+DB0A","U+DB0B",
     "U+DB0C","U+DB0D","U+DB0E","U+DB0F","U+DB10","U+DB11","U+DB12","U+DB13","U+DB14","U+DB15",
     "U+DB16","U+DB17","U+DB18","U+DB19","U+DB1A","U+DB1B","U+DB1C","U+DB1D","U+DB1E","U+DB1F",
     "U+DB20","U+DB21","U+DB22","U+DB23","U+DB24","U+DB25","U+DB26","U+DB27","U+DB28","U+DB29",
     "U+DB2A","U+DB2B","U+DB2C","U+DB2D","U+DB2E","U+DB2F","U+DB30","U+DB31","U+DB32","U+DB33",
     "U+DB34","U+DB35","U+DB36","U+DB37","U+DB38","U+DB39","U+DB3A","U+DB3B","U+DB3C","U+DB3D",
     "U+DB3E","U+DB3F","U+DB40","U+DB41","U+DB42","U+DB43","U+DB44","U+DB45","U+DB46","U+DB47",
     "U+DB48","U+DB49","U+DB4A","U+DB4B","U+DB4C","U+DB4D","U+DB4E","U+DB4F","U+DB50","U+DB51",
     "U+DB52","U+DB53","U+DB54","U+DB55","U+DB56","U+DB57","U+DB58","U+DB59","U+DB5A","U+DB5B",
     "U+DB5C","U+DB5D","U+DB5E","U+DB5F","U+DB60","U+DB61","U+DB62","U+DB63","U+DB64","U+DB65",
     "U+DB66","U+DB67","U+DB68","U+DB69","U+DB6A","U+DB6B","U+DB6C","U+DB6D","U+DB6E","U+DB6F",
     "U+DB70","U+DB71","U+DB72","U+DB73","U+DB74","U+DB75","U+DB76","U+DB77","U+DB78","U+DB79",
     "U+DB7A","U+DB7B","U+DB7C","U+DB7D","U+DB7E","U+DB7F","U+DB80","U+DB81","U+DB82","U+DB83",
     "U+DB84","U+DB85","U+DB86","U+DB87","U+DB88","U+DB89","U+DB8A","U+DB8B","U+DB8C","U+DB8D",
     "U+DB8E","U+DB8F","U+DB90","U+DB91","U+DB92","U+DB93","U+DB94","U+DB95","U+DB96","U+DB97",
     "U+DB98","U+DB99","U+DB9A","U+DB9B","U+DB9C","U+DB9D","U+DB9E","U+DB9F","U+DBA0","U+DBA1",
     "U+DBA2","U+DBA3","U+DBA4","U+DBA5","U+DBA6","U+DBA7","U+DBA8","U+DBA9","U+DBAA","U+DBAB",
     "U+DBAC","U+DBAD","U+DBAE","U+DBAF","U+DBB0","U+DBB1","U+DBB2","U+DBB3","U+DBB4","U+DBB5",
     "U+DBB6","U+DBB7","U+DBB8","U+DBB9","U+DBBA","U+DBBB","U+DBBC","U+DBBD","U+DBBE","U+DBBF",
     "U+DBC0","U+DBC1","U+DBC2","U+DBC3","U+DBC4","U+DBC5","U+DBC6","U+DBC7","U+DBC8","U+DBC9",
     "U+DBCA","U+DBCB","U+DBCC","U+DBCD","U+DBCE","U+DBCF","U+DBD0","U+DBD1","U+DBD2","U+DBD3",
     "U+DBD4","U+DBD5","U+DBD6","U+DBD7","U+DBD8","U+DBD9","U+DBDA","U+DBDB","U+DBDC","U+DBDD",
     "U+DBDE","U+DBDF","U+DBE0","U+DBE1","U+DBE2","U+DBE3","U+DBE4","U+DBE5","U+DBE6","U+DBE7",
     "U+DBE8","U+DBE9","U+DBEA","U+DBEB","U+DBEC","U+DBED","U+DBEE","U+DBEF","U+DBF0","U+DBF1",
     "U+DBF2","U+DBF3","U+DBF4","U+DBF5","U+DBF6","U+DBF7","U+DBF8","U+DBF9","U+DBFA","U+DBFB",
     "U+DBFC","U+DBFD","U+DBFE","U+DBFF"}

\* the low surrogates in their order
LowSurrogateSeq == 
    <<"U+DC00","U+DC01","U+DC02","U+DC03","U+DC04","U+DC05","U+DC06","U+DC07","U+DC08","U+DC09",
     "U+DC0A","U+DC0B","U+DC0C","U+DC0D","U+DC0E","U+DC0F","U+DC10","U+DC11","U+DC12","U+DC13",
     "U+DC14","U+DC15","U+DC16","U+DC17","U+DC18","U+DC19","U+DC1A","U+DC1B","U+DC1C","U+DC1D",
     "U+DC1E","U+DC1F","U+DC20","U+DC21","U+DC22","U+DC23","U+DC24","U+DC25","U+DC26","U+DC27",
     "U+DC28","U+DC29","U+DC2A","U+DC2B","U+DC2C","U+DC2D","U+DC2E","U+DC2F","U+DC30","U+DC31",
     "U+DC32","U+DC33","U+DC34","U+DC35","U+DC36","U+DC37","U+DC38","U+DC39","U+DC3A","U+DC3B",
     "U+DC3C","U+DC3D","U+DC3E","U+DC3F","U+DC40","U+DC41","U+DC42","U+DC43","U+DC44","U+DC45",
     "U+DC46","U+DC47","U+DC48","U+DC49","U+DC4A","U+DC4B","U+DC4C","U+DC4D","U+DC4E","U+DC4F",
     "U+DC50","U+DC51","U+DC52","U+DC53","U+DC54","U+DC55","U+DC56","U+DC57","U+DC58","U+DC59",
     "U+DC5A","U+DC5B","U+DC5C","U+DC5D","U+DC5E","U+DC5F","U+DC60","U+DC61","U+DC62","U+DC63",
     "U+DC64","U+DC65","U+DC66","U+DC67","U+DC68","U+DC69","U+DC6A","U+DC6B","U+DC6C","U+DC6D",
     "U+DC6E","U+DC6F","U+DC70","U+DC71","U+DC72","U+DC73","U+DC74","U+DC75","U+DC76","U+DC77",
     "U+DC78","U+DC79","U+DC7A","U+DC7B","U+DC7C","U+DC7D","U+DC7E","U+DC7F","U+DC80","U+DC81",
     "U+DC82","U+DC83","U+DC84","U+DC85","U+DC86","U+DC87","U+DC88","U+DC89","U+DC8A","U+DC8B",
     "U+DC8C","U+DC8D","U+DC8E","U+DC8F","U+DC90","U+DC91","U+DC92","U+DC93","U+DC94","U+DC95",
     "U+DC96","U+DC97","U+DC98","U+DC99","U+DC9A","U+DC9B","U+DC9C","U+DC9D","U+DC9E","U+DC9F",
     "U+DCA0","U+DCA1","U+DCA2","U+DCA3","U+DCA4","U+DCA5","U+DCA6","U+DCA7","U+DCA8","U+DCA9",
     "U+DCAA","U+DCAB","U+DCAC","U+DCAD","U+DCAE","U+DCAF","U+DCB0","U+DCB1","U+DCB2","U+DCB3",
     "U+DCB4","U+DCB5","U+DCB6","U+DCB7","U+DCB8","U+DCB9","U+DCBA","U+DCBB","U+DCBC","U+DCBD",
     "U+DCBE","U+DCBF","U+DCC0","U+DCC1","U+DCC2","U+DCC3","U+DCC4","U+DCC5","U+DCC6","U+DCC7",
     "U+DCC8","U+DCC9","U+DCCA","U+DCCB","U+DCCC","U+DCCD","U+DCCE","U+DCCF","U+DCD0","U+DCD1",
     "U+DCD2","U+DCD3","U+DCD4","U+DCD5","U+DCD6","U+DCD7","U+DCD8","U+DCD9","U+DCDA","U+DCDB",
     "U+DCDC","U+DCDD","U+DCDE","U+DCDF","U+DCE0","U+DCE1","U+DCE2","U+DCE3","U+DCE4","U+DCE5",
     "U+DCE6","U+DCE7","U+DCE8","U+DCE9","U+DCEA","U+DCEB","U+DCEC","U+DCED","U+DCEE","U+DCEF",
     "U+DCF0","U+DCF1","U+DCF2","U+DCF3","U+DCF4","U+DCF5","U+DCF6","U+DCF7","U+DCF8","U+DCF9",
     "U+DCFA","U+DCFB","U+DCFC","U+DCFD","U+DCFE","U+DCFF","U+DD00","U+DD01","U+DD02","U+DD03",
     "U+DD04","U+DD05","U+DD06","U+DD07","U+DD08","U+DD09","U+DD0A","U+DD0B","U+DD0C","U+DD0D",
     "U+DD0E","U+DD0F","U+DD10","U+DD11","U+DD12","U+DD13","U+DD14","U+DD15","U+DD16","U+DD17",
     "U+DD18","U+DD19","U+DD1A","U+DD1B","U+DD1C","U+DD1D","U+DD1E","U+DD1F","U+DD20","U+DD21",
     "U+DD22","U+DD23","U+DD24","U+DD25","U+DD26","U+DD27","U+DD28","U+DD29","U+DD2A","U+DD2B",
     "U+DD2C","U+DD2D","U+DD2E","U+DD2F","U+DD30","U+DD31","U+DD32","U+DD33","U+DD34","U+DD35",
     "U+DD36","U+DD37","U+DD38","U+DD39","U+DD3A","U+DD3B","U+DD3C","U+DD3D","U+DD3E","U+DD3F",
     "U+DD40","U+DD41","U+DD42","U+DD43","U+DD44","U+DD45","U+DD46","U+DD47","U+DD48","U+DD49",
     "U+DD4A","U+DD4B","U+DD4C","U+DD4D","U+DD4E","U+DD4F","U+DD50","U+DD51","U+DD52","U+DD53",
     "U+DD54","U+DD55","U+DD56","U+DD57","U+DD58","U+DD59","U+DD5A","U+DD5B","U+DD5C","U+DD5D",
     "U+DD5E","U+DD5F","U+DD60","U+DD61","U+DD62","U+DD63","U+DD64","U+DD65","U+DD66","U+DD67",
     "U+DD68","U+DD69","U+DD6A","U+DD6B","U+DD6C","U+DD6D","U+DD6E","U+DD6F","U+DD70","U+DD71",
     "U+DD72","U+DD73","U+DD74","U+DD75","U+DD76","U+DD77","U+DD78","U+DD79","U+DD7A","U+DD7B",
     "U+DD7C","U+DD7D","U+DD7E","U+DD7F","U+DD80","U+DD81","U+DD82","U+DD83","U+DD84","U+DD85",
     "U+DD86","U+DD87","U+DD88","U+DD89","U+DD8A","U+DD8B","U+DD8C","U+DD8D","U+DD8E","U+DD8F",
     "U+DD90","U+DD91","U+DD92","U+DD93","U+DD94","U+DD95","U+DD96","U+DD97","U+DD98","U+DD99",
     "U+DD9A","U+DD9B","U+DD9C","U+DD9D","U+DD9E","U+DD9F","U+DDA0","U+DDA1","U+DDA2","U+DDA3",
     "U+DDA4","U+DDA5","U+DDA6","U+DDA7","U+DDA8","U+DDA9","U+DDAA","U+DDAB","U+DDAC","U+DDAD",
     "U+DDAE","U+DDAF","U+DDB0","U+DDB1","U+DDB2","U+DDB3","U+DDB4","U+DDB5","U+DDB6","U+DDB7",
     "U+DDB8","U+DDB9","U+DDBA","U+DDBB","U+DDBC","U+DDBD","U+DDBE","U+DDBF","U+DDC0","U+DDC1",
     "U+DDC2","U+DDC3","U+DDC4","U+DDC5","U+DDC6","U+DDC7","U+DDC8","U+DDC9","U+DDCA","U+DDCB",
     "U+DDCC","U+DDCD","U+DDCE","U+DDCF","U+DDD0","U+DDD1","U+DDD2","U+DDD3","U+DDD4","U+DDD5",
     "U+DDD6","U+DDD7","U+DDD8","U+DDD9","U+DDDA","U+DDDB","U+DDDC","U+DDDD","U+DDDE","U+DDDF",
     "U+DDE0","U+DDE1","U+DDE2","U+DDE3","U+DDE4","U+DDE5","U+DDE6","U+DDE7","U+DDE8","U+DDE9",
     "U+DDEA","U+DDEB","U+DDEC","U+DDED","U+DDEE","U+DDEF","U+DDF0","U+DDF1","U+DDF2","U+DDF3",
     "U+DDF4","U+DDF5","U+DDF6","U+DDF7","U+DDF8","U+DDF9","U+DDFA","U+DDFB","U+DDFC","U+DDFD",
     "U+DDFE","U+DDFF","U+DE00","U+DE01","U+DE02","U+DE03","U+DE04","U+DE05","U+DE06","U+DE07",
     "U+DE08","U+DE09","U+DE0A","U+DE0B","U+DE0C","U+DE0D","U+DE0E","U+DE0F","U+DE10","U+DE11",
     "U+DE12","U+DE13","U+DE14","U+DE15","U+DE16","U+DE17","U+DE18","U+DE19","U+DE1A","U+DE1B",
     "U+DE1C","U+DE1D","U+DE1E","U+DE1F","U+DE20","U+DE21","U+DE22","U+DE23","U+DE24","U+DE25",
     "U+DE26","U+DE27","U+DE28","U+DE29","U+DE2A","U+DE2B","U+DE2C","U+DE2D","U+DE2E","U+DE2F",
     "U+DE30","U+DE31","U+DE32","U+DE33","U+DE34","U+DE35","U+DE36","U+DE37","U+DE38","U+DE39",
     "U+DE3A","U+DE3B","U+DE3C","U+DE3D","U+DE3E","U+DE3F","U+DE40","U+DE41","U+DE42","U+DE43",
     "U+DE44","U+DE45","U+DE46","U+DE47","U+DE48","U+DE49","U+DE4A","U+DE4B","U+DE4C","U+DE4D",
     "U+DE4E","U+DE4F","U+DE50","U+DE51","U+DE52","U+DE53","U+DE54","U+DE55","U+DE56","U+DE57",
     "U+DE58","U+DE59","U+DE5A","U+DE5B","U+DE5C","U+DE5D","U+DE5E","U+DE5F","U+DE60","U+DE61",
     "U+DE62","U+DE63","U+DE64","U+DE65","U+DE66","U+DE67","U+DE68","U+DE69","U+DE6A","U+DE6B",
     "U+DE6C","U+DE6D","U+DE6E","U+DE6F","U+DE70","U+DE71","U+DE72","U+DE73","U+DE74","U+DE75",
     "U+DE76","U+DE77","U+DE78","U+DE79","U+DE7A","U+DE7B","U+DE7C","U+DE7D","U+DE7E","U+DE7F",
     "U+DE80","U+DE81","U+DE82","U+DE83","U+DE84","U+DE85","U+DE86","U+DE87","U+DE88","U+DE89",
     "U+DE8A","U+DE8B","U+DE8C","U+DE8D","U+DE8E","U+DE8F","U+DE90","U+DE91","U+DE92","U+DE93",
     "U+DE94","U+DE95","U+DE96","U+DE97","U+DE98","U+DE99","U+DE9A","U+DE9B","U+DE9C","U+DE9D",
     "U+DE9E","U+DE9F","U+DEA0","U+DEA1","U+DEA2","U+DEA3","U+DEA4","U+DEA5","U+DEA6","U+DEA7",
     "U+DEA8","U+DEA9","U+DEAA","U+DEAB","U+DEAC","U+DEAD","U+DEAE","U+DEAF","U+DEB0","U+DEB1",
     "U+DEB2","U+DEB3","U+DEB4","U+DEB5","U+DEB6","U+DEB7","U+DEB8","U+DEB9","U+DEBA","U+DEBB",
     "U+DEBC","U+DEBD","U+DEBE","U+DEBF","U+DEC0","U+DEC1","U+DEC2","U+DEC3","U+DEC4","U+DEC5",
     "U+DEC6","U+DEC7","U+DEC8","U+DEC9","U+DECA","U+DECB","U+DECC","U+DECD","U+DECE","U+DECF",
     "U+DED0","U+DED1","U+DED2","U+DED3","U+DED4","U+DED5","U+DED6","U+DED7","U+DED8","U+DED9",
     "U+DEDA","U+DEDB","U+DEDC","U+DEDD","U+DEDE","U+DEDF","U+DEE0","U+DEE1","U+DEE2","U+DEE3",
     "U+DEE4","U+DEE5","U+DEE6","U+DEE7","U+DEE8","U+DEE9","U+DEEA","U+DEEB","U+DEEC","U+DEED",
     "U+DEEE","U+DEEF","U+DEF0","U+DEF1","U+DEF2","U+DEF3","U+DEF4","U+DEF5","U+DEF6","U+DEF7",
     "U+DEF8","U+DEF9","U+DEFA","U+DEFB","U+DEFC","U+DEFD","U+DEFE","U+DEFF","U+DF00","U+DF01",
     "U+DF02","U+DF03","U+DF04","U+DF05","U+DF06","U+DF07","U+DF08","U+DF09","U+DF0A","U+DF0B",
     "U+DF0C","U+DF0D","U+DF0E","U+DF0F","U+DF10","U+DF11","U+DF12","U+DF13","U+DF14","U+DF15",
     "U+DF16","U+DF17","U+DF18","U+DF19","U+DF1A","U+DF1B","U+DF1C","U+DF1D","U+DF1E","U+DF1F",
     "U+DF20","U+DF21","U+DF22","U+DF23","U+DF24","U+DF25","U+DF26","U+DF27","U+DF28","U+DF29",
     "U+DF2A","U+DF2B","U+DF2C","U+DF2D","U+DF2E","U+DF2F","U+DF30","U+DF31","U+DF32","U+DF33",
     "U+DF34","U+DF35","U+DF36","U+DF37","U+DF38","U+DF39","U+DF3A","U+DF3B","U+DF3C","U+DF3D",
     "U+DF3E","U+DF3F","U+DF40","U+DF41","U+DF42","U+DF43","U+DF44","U+DF45","U+DF46","U+DF47",
     "U+DF48","U+DF49","U+DF4A","U+DF4B","U+DF4C","U+DF4D","U+DF4E","U+DF4F","U+DF50","U+DF51",
     "U+DF52","U+DF53","U+DF54","U+DF55","U+DF56","U+DF57","U+DF58","U+DF59","U+DF5A","U+DF5B",
     "U+DF5C","U+DF5D","U+DF5E","U+DF5F","U+DF60","U+DF61","U+DF62","U+DF63","U+DF64","U+DF65",
     "U+DF66","U+DF67","U+DF68","U+DF69","U+DF6A","U+DF6B","U+DF6C","U+DF6D","U+DF6E","U+DF6F",
     "U+DF70","U+DF71","U+DF72","U+DF73","U+DF74","U+DF75","U+DF76","U+DF77","U+DF78","U+DF79",
     "U+DF7A","U+DF7B","U+DF7C","U+DF7D","U+DF7E","U+DF7F","U+DF80","U+DF81","U+DF82","U+DF83",
     "U+DF84","U+DF85","U+DF86","U+DF87","U+DF88","U+DF89","U+DF8A","U+DF8B","U+DF8C","U+DF8D",
     "U+DF8E","U+DF8F","U+DF90","U+DF91","U+DF92","U+DF93","U+DF94","U+DF95","U+DF96","U+DF97",
     "U+DF98","U+DF99","U+DF9A","U+DF9B","U+DF9C","U+DF9D","U+DF9E","U+DF9F","U+DFA0","U+DFA1",
     "U+DFA2","U+DFA3","U+DFA4","U+DFA5","U+DFA6","U+DFA7","U+DFA8","U+DFA9","U+DFAA","U+DFAB",
     "U+DFAC","U+DFAD","U+DFAE","U+DFAF","U+DFB0","U+DFB1","U+DFB2","U+DFB3","U+DFB4","U+DFB5",
     "U+DFB6","U+DFB7","U+DFB8","U+DFB9","U+DFBA","U+DFBB","U+DFBC","U+DFBD","U+DFBE","U+DFBF",
     "U+DFC0","U+DFC1","U+DFC2","U+DFC3","U+DFC4","U+DFC5","U+DFC6","U+DFC7","U+DFC8","U+DFC9",
     "U+DFCA","U+DFCB","U+DFCC","U+DFCD","U+DFCE","U+DFCF","U+DFD0","U+DFD1","U+DFD2","U+DFD3",
     "U+DFD4","U+DFD5","U+DFD6","U+DFD7","U+DFD8","U+DFD9","U+DFDA","U+DFDB","U+DFDC","U+DFDD",
     "U+DFDE","U+DFDF","U+DFE0","U+DFE1","U+DFE2","U+DFE3","U+DFE4","U+DFE5","U+DFE6","U+DFE7",
     "U+DFE8","U+DFE9","U+DFEA","U+DFEB","U+DFEC","U+DFED","U+DFEE","U+DFEF","U+DFF0","U+DFF1",
     "U+DFF2","U+DFF3","U+DFF4","U+DFF5","U+DFF6","U+DFF7","U+DFF8","U+DFF9","U+DFFA","U+DFFB",
     "U+DFFC","U+DFFD","U+DFFE","U+DFFF">>

LowSurrogates == {LowSurrogateSeq[i] : i \in DOMAIN LowSurrogateSeq}

\* the place of a low surrogate among them
LowPlace(c) == CHOOSE i \in DOMAIN LowSurrogateSeq : LowSurrogateSeq[i] = c

\* the code points of s, as the string iterator gives them: a high surrogate
\* with the low surrogate after it is one, any other code unit is one
CodePoints(s) ==
    LET second == {i \in 2..Len(s) : s[i] \in LowSurrogates /\ s[i - 1] \in HighSurrogates}
        starts == SelectSeq([i \in 1..Len(s) |-> i], LAMBDA i : i \notin second)
    IN  [k \in 1..Len(starts) |->
            IF starts[k] + 1 \in second THEN SubSeq(s, starts[k], starts[k] + 1)
            ELSE <<s[starts[k]]>>]

\* the characters other than A-Z that String.prototype.toLowerCase changes,
\* and what it gives for each that stands alone: one character or more
LowerCaseFrom == 
    <<"À","Á","Â","Ã","Ä","Å","Æ","Ç","È","É","Ê","Ë","Ì","Í","Î","Ï","Ð","Ñ","Ò","Ó","Ô","Õ","Ö",
     "Ø","Ù","Ú","Û","Ü","Ý","Þ","U+0100","U+0102","U+0104","U+0106","U+0108","U+010A","U+010C",
     "U+010E","U+0110","U+0112","U+0114","U+0116","U+0118","U+011A","U+011C","U+011E","U+0120",
     "U+0122","U+0124","U+0126","U+0128","U+012A","U+012C","U+012E","U+0130","U+0132","U+0134",
     "U+0136","U+0139","U+013B","U+013D","U+013F","U+0141","U+0143","U+0145","U+0147","U+014A",
     "U+014C","U+014E","U+0150","U+0152","U+0154","U+0156","U+0158","U+015A","U+015C","U+015E",
     "U+0160","U+0162","U+0164","U+0166","U+0168","U+016A","U+016C","U+016E","U+0170","U+0172",
     "U+0174","U+0176","U+0178","U+0179","U+017B","U+017D","Ɓ","Ƃ","Ƅ","Ɔ","Ƈ","Ɖ","Ɗ","Ƌ","Ǝ","Ə",
     "Ɛ","Ƒ","Ɠ","Ɣ","Ɩ","Ɨ","Ƙ","Ɯ","Ɲ","Ɵ","Ơ","Ƣ","Ƥ","Ʀ","Ƨ","Ʃ","Ƭ","Ʈ","Ư","Ʊ","Ʋ","Ƴ","Ƶ",
     "Ʒ","Ƹ","Ƽ","Ǆ","ǅ","Ǉ","ǈ","Ǌ","ǋ","Ǎ","Ǐ","Ǒ","Ǔ","Ǖ","Ǘ","Ǚ","Ǜ","Ǟ","Ǡ","Ǣ","Ǥ","Ǧ","Ǩ",
     "Ǫ","Ǭ","Ǯ","Ǳ","ǲ","Ǵ","Ƕ","Ƿ","Ǹ","Ǻ","Ǽ","Ǿ","U+0200","U+0202","U+0204","U+0206","U+0208",
     "U+020A","U+020C","U+020E","U+0210","U+0212","U+0214","U+0216","U+0218","U+021A","U+021C",
     "U+021E","U+0220","U+0222","U+0224","U+0226","U+0228","U+022A","U+022C","U+022E","U+0230",
     "U+0232","U+023A","U+023B","U+023D","U+023E","U+0241","U+0243","U+0244","U+0245","U+0246",
     "U+0248","U+024A","U+024C","U+024E","U+0370","U+0372","U+0376","U+037F","Ά","Έ","Ή","Ί","Ό",
     "Ύ","Ώ","Α","Β","Γ","Δ","Ε","Ζ","Η","Θ","Ι","Κ","Λ","Μ","Ν","Ξ","Ο","Π","Ρ","Σ","Τ","Υ","Φ",
     "Χ","Ψ","Ω","Ϊ","Ϋ","Ϗ","Ϙ","Ϛ","Ϝ","Ϟ","Ϡ","Ϣ","Ϥ","Ϧ","Ϩ","Ϫ","Ϭ","Ϯ","ϴ","Ϸ","Ϲ","Ϻ","Ͻ",
     "Ͼ","Ͽ","U+0400","U+0401","U+0402","U+0403","U+0404","U+0405","U+0406","U+0407","U+0408",
     "U+0409","U+040A","U+040B","U+040C","U+040D","U+040E","U+040F","U+0410","U+0411","U+0412",
     "U+0413","U+0414","U+0415","U+0416","U+0417","U+0418","U+0419","U+041A","U+041B","U+041C",
     "U+041D","U+041E","U+041F","U+0420","U+0421","U+0422","U+0423","U+0424","U+0425","U+0426",
     "U+0427","U+0428","U+0429","U+042A","U+042B","U+042C","U+042D","U+042E","U+042F","U+0460",
     "U+0462","U+0464","U+0466","U+0468","U+046A","U+046C","U+046E","U+0470","U+0472","U+0474",
     "U+0476","U+0478","U+047A","U+047C","U+047E","Ҁ","Ҋ","Ҍ","Ҏ","Ґ","Ғ","Ҕ","Җ","Ҙ","Қ","Ҝ","Ҟ",
     "Ҡ","Ң","Ҥ","Ҧ","Ҩ","Ҫ","Ҭ","Ү","Ұ","Ҳ","Ҵ","Ҷ","Ҹ","Һ","Ҽ","Ҿ","Ӏ","Ӂ","Ӄ","Ӆ","Ӈ","Ӊ","Ӌ",
     "Ӎ","Ӑ","Ӓ","Ӕ","Ӗ","Ә","Ӛ","Ӝ","Ӟ","Ӡ","Ӣ","Ӥ","Ӧ","Ө","Ӫ","Ӭ","Ӯ","Ӱ","Ӳ","Ӵ","Ӷ","Ӹ","Ӻ",
     "Ӽ","Ӿ","U+0500","U+0502","U+0504","U+0506","U+0508","U+050A","U+050C","U+050E","U+0510",
     "U+0512","U+0514","U+0516","U+0518","U+051A","U+051C","U+051E","U+0520","U+0522","U+0524",
     "U+0526","U+0528","U+052A","U+052C","U+052E","U+0531","U+0532","U+0533","U+0534","U+0535",
     "U+0536","U+0537","U+0538","U+0539","U+053A","U+053B","U+053C","U+053D","U+053E","U+053F",
     "U+0540","U+0541","U+0542","U+0543","U+0544","U+0545","U+0546","U+0547","U+0548","U+0549",
     "U+054A","U+054B","U+054C","U+054D","U+054E","U+054F","U+0550","U+0551","U+0552","U+0553",
     "U+0554","U+0555","U+0556","Ⴀ","Ⴁ","Ⴂ","Ⴃ","Ⴄ","Ⴅ","Ⴆ","Ⴇ","Ⴈ","Ⴉ","Ⴊ","Ⴋ","Ⴌ","Ⴍ","Ⴎ","Ⴏ","Ⴐ",
     "Ⴑ","Ⴒ","Ⴓ","Ⴔ","Ⴕ","Ⴖ","Ⴗ","Ⴘ","Ⴙ","Ⴚ","Ⴛ","Ⴜ","Ⴝ","Ⴞ","Ⴟ","Ⴠ","Ⴡ","Ⴢ","Ⴣ","Ⴤ","Ⴥ","Ⴧ","Ⴭ",
     "Ꭰ","Ꭱ","Ꭲ","Ꭳ","Ꭴ","Ꭵ","Ꭶ","Ꭷ","Ꭸ","Ꭹ","Ꭺ","Ꭻ","Ꭼ","Ꭽ","Ꭾ","Ꭿ","Ꮀ","Ꮁ","Ꮂ","Ꮃ","Ꮄ","Ꮅ","Ꮆ",
     "Ꮇ","Ꮈ","Ꮉ","Ꮊ","Ꮋ","Ꮌ","Ꮍ","Ꮎ","Ꮏ","Ꮐ","Ꮑ","Ꮒ","Ꮓ","Ꮔ","Ꮕ","Ꮖ","Ꮗ","Ꮘ","Ꮙ","Ꮚ","Ꮛ","Ꮜ","Ꮝ",
     "Ꮞ","Ꮟ","Ꮠ","Ꮡ","Ꮢ","Ꮣ","Ꮤ","Ꮥ","Ꮦ","Ꮧ","Ꮨ","Ꮩ","Ꮪ","Ꮫ","Ꮬ","Ꮭ","Ꮮ","Ꮯ","Ꮰ","Ꮱ","Ꮲ","Ꮳ","Ꮴ",
     "Ꮵ","Ꮶ","Ꮷ","Ꮸ","Ꮹ","Ꮺ","Ꮻ","Ꮼ","Ꮽ","Ꮾ","Ꮿ","Ᏸ","Ᏹ","Ᏺ","Ᏻ","Ᏼ","Ᏽ","Ᲊ","Ა","Ბ","Გ","Დ","Ე",
     "Ვ","Ზ","Თ","Ი","Კ","Ლ","Მ","Ნ","Ო","Პ","Ჟ","Რ","Ს","Ტ","Უ","Ფ","Ქ","Ღ","Ყ","Შ","Ჩ","Ც","Ძ",
     "Წ","Ჭ","Ხ","Ჯ","Ჰ","Ჱ","Ჲ","Ჳ","Ჴ","Ჵ","Ჶ","Ჷ","Ჸ","Ჹ","Ჺ","Ჽ","Ჾ","Ჿ","U+1E00","U+1E02",
     "U+1E04","U+1E06","U+1E08","U+1E0A","U+1E0C","U+1E0E","U+1E10","U+1E12","U+1E14","U+1E16",
     "U+1E18","U+1E1A","U+1E1C","U+1E1E","U+1E20","U+1E22","U+1E24","U+1E26","U+1E28","U+1E2A",
     "U+1E2C","U+1E2E","U+1E30","U+1E32","U+1E34","U+1E36","U+1E38","U+1E3A","U+1E3C","U+1E3E",
     "U+1E40","U+1E42","U+1E44","U+1E46","U+1E48","U+1E4A","U+1E4C","U+1E4E","U+1E50","U+1E52",
     "U+1E54","U+1E56","U+1E58","U+1E5A","U+1E5C","U+1E5E","U+1E60","U+1E62","U+1E64","U+1E66",
     "U+1E68","U+1E6A","U+1E6C","U+1E6E","U+1E70","U+1E72","U+1E74","U+1E76","U+1E78","U+1E7A",
     "U+1E7C","U+1E7E","Ẁ","Ẃ","Ẅ","Ẇ","Ẉ","Ẋ","Ẍ","Ẏ","Ẑ","Ẓ","Ẕ","ẞ","Ạ","Ả","Ấ","Ầ","Ẩ","Ẫ","Ậ",
     "Ắ","Ằ","Ẳ","Ẵ","Ặ","Ẹ","Ẻ","Ẽ","Ế","Ề","Ể","Ễ","Ệ","Ỉ","Ị","Ọ","Ỏ","Ố","Ồ","Ổ","Ỗ","Ộ","Ớ",
     "Ờ","Ở","Ỡ","Ợ","Ụ","Ủ","Ứ","Ừ","Ử","Ữ","Ự","Ỳ","Ỵ","Ỷ","Ỹ","Ỻ","Ỽ","Ỿ","U+1F08","U+1F09",
     "U+1F0A","U+1F0B","U+1F0C","U+1F0D","U+1F0E","U+1F0F","U+1F18","U+1F19","U+1F1A","U+1F1B",
     "U+1F1C","U+1F1D","U+1F28","U+1F29","U+1F2A","U+1F2B","U+1F2C","U+1F2D","U+1F2E","U+1F2F",
     "U+1F38","U+1F39","U+1F3A","U+1F3B","U+1F3C","U+1F3D","U+1F3E","U+1F3F","U+1F48","U+1F49",
     "U+1F4A","U+1F4B","U+1F4C","U+1F4D","U+1F59","U+1F5B","U+1F5D","U+1F5F","U+1F68","U+1F69",
     "U+1F6A","U+1F6B","U+1F6C","U+1F6D","U+1F6E","U+1F6F","ᾈ","ᾉ","ᾊ","ᾋ","ᾌ","ᾍ","ᾎ","ᾏ","ᾘ","ᾙ",
     "ᾚ","ᾛ","ᾜ","ᾝ","ᾞ","ᾟ","ᾨ","ᾩ","ᾪ","ᾫ","ᾬ","ᾭ","ᾮ","ᾯ","Ᾰ","Ᾱ","Ὰ","Ά","ᾼ","Ὲ","Έ","Ὴ","Ή",
     "ῌ","Ῐ","Ῑ","Ὶ","Ί","Ῠ","Ῡ","Ὺ","Ύ","Ῥ","Ὸ","Ό","Ὼ","Ώ","ῼ","U+2126","U+212A","U+212B",
     "U+2132","U+2160","U+2161","U+2162","U+2163","U+2164","U+2165","U+2166","U+2167","U+2168",
     "U+2169","U+216A","U+216B","U+216C","U+216D","U+216E","U+216F","Ↄ","Ⓐ","Ⓑ","Ⓒ","Ⓓ","Ⓔ","Ⓕ","Ⓖ",
     "Ⓗ","Ⓘ","Ⓙ","Ⓚ","Ⓛ","Ⓜ","Ⓝ","Ⓞ","Ⓟ","Ⓠ","Ⓡ","Ⓢ","Ⓣ","Ⓤ","Ⓥ","Ⓦ","Ⓧ","Ⓨ","Ⓩ","U+2C00","U+2C01",
     "U+2C02","U+2C03","U+2C04","U+2C05","U+2C06","U+2C07","U+2C08","U+2C09","U+2C0A","U+2C0B",
     "U+2C0C","U+2C0D","U+2C0E","U+2C0F","U+2C10","U+2C11","U+2C12","U+2C13","U+2C14","U+2C15",
     "U+2C16","U+2C17","U+2C18","U+2C19","U+2C1A","U+2C1B","U+2C1C","U+2C1D","U+2C1E","U+2C1F",
     "U+2C20","U+2C21","U+2C22","U+2C23","U+2C24","U+2C25","U+2C26","U+2C27","U+2C28","U+2C29",
     "U+2C2A","U+2C2B","U+2C2C","U+2C2D","U+2C2E","U+2C2F","U+2C60","U+2C62","U+2C63","U+2C64",
     "U+2C67","U+2C69","U+2C6B","U+2C6D","U+2C6E","U+2C6F","U+2C70","U+2C72","U+2C75","U+2C7E",
     "U+2C7F","Ⲁ","Ⲃ","Ⲅ","Ⲇ","Ⲉ","Ⲋ","Ⲍ","Ⲏ","Ⲑ","Ⲓ","Ⲕ","Ⲗ","Ⲙ","Ⲛ","Ⲝ","Ⲟ","Ⲡ","Ⲣ","Ⲥ","Ⲧ","Ⲩ",
     "Ⲫ","Ⲭ","Ⲯ","Ⲱ","Ⲳ","Ⲵ","Ⲷ","Ⲹ","Ⲻ","Ⲽ","Ⲿ","Ⳁ","Ⳃ","Ⳅ","Ⳇ","Ⳉ","Ⳋ","Ⳍ","Ⳏ","Ⳑ","Ⳓ","Ⳕ","Ⳗ",
     "Ⳙ","Ⳛ","Ⳝ","Ⳟ","Ⳡ","Ⳣ","Ⳬ","Ⳮ","Ⳳ","U+A640","U+A642","U+A644","U+A646","U+A648","U+A64A",
     "U+A64C","U+A64E","U+A650","U+A652","U+A654","U+A656","U+A658","U+A65A","U+A65C","U+A65E",
     "U+A660","U+A662","U+A664","U+A666","U+A668","U+A66A","U+A66C","Ꚁ","Ꚃ","Ꚅ","Ꚇ","Ꚉ","Ꚋ","Ꚍ","Ꚏ",
     "Ꚑ","Ꚓ","Ꚕ","Ꚗ","Ꚙ","Ꚛ","U+A722","U+A724","U+A726","U+A728","U+A72A","U+A72C","U+A72E",
     "U+A732","U+A734","U+A736","U+A738","U+A73A","U+A73C","U+A73E","U+A740","U+A742","U+A744",
     "U+A746","U+A748","U+A74A","U+A74C","U+A74E","U+A750","U+A752","U+A754","U+A756","U+A758",
     "U+A75A","U+A75C","U+A75E","U+A760","U+A762","U+A764","U+A766","U+A768","U+A76A","U+A76C",
     "U+A76E","U+A779","U+A77B","U+A77D","U+A77E","Ꞁ","Ꞃ","Ꞅ","Ꞇ","Ꞌ","Ɥ","Ꞑ","Ꞓ","Ꞗ","Ꞙ","Ꞛ","Ꞝ",
     "Ꞟ","Ꞡ","Ꞣ","Ꞥ","Ꞧ","Ꞩ","Ɦ","Ɜ","Ɡ","Ɬ","Ɪ","Ʞ","Ʇ","Ʝ","Ꭓ","Ꞵ","Ꞷ","Ꞹ","Ꞻ","Ꞽ","Ꞿ","Ꟁ","Ꟃ",
     "Ꞔ","Ʂ","Ᶎ","Ꟈ","Ꟊ","Ɤ","Ꟍ","꟎","Ꟑ","꟒","꟔","Ꟗ","Ꟙ","Ꟛ","Ƛ","Ꟶ","U+FF21","U+FF22","U+FF23",
     "U+FF24","U+FF25","U+FF26","U+FF27","U+FF28","U+FF29","U+FF2A","U+FF2B","U+FF2C","U+FF2D",
     "U+FF2E","U+FF2F","U+FF30","U+FF31","U+FF32","U+FF33","U+FF34","U+FF35","U+FF36","U+FF37",
     "U+FF38","U+FF39","U+FF3A">>

LowerCaseTo == 
    <<<<"à">>,<<"á">>,<<"â">>,<<"ã">>,<<"ä">>,<<"å">>,<<"æ">>,<<"ç">>,<<"è">>,<<"é">>,<<"ê">>,
     <<"ë">>,<<"ì">>,<<"í">>,<<"î">>,<<"ï">>,<<"ð">>,<<"ñ">>,<<"ò">>,<<"ó">>,<<"ô">>,<<"õ">>,
     <<"ö">>,<<"ø">>,<<"ù">>,<<"ú">>,<<"û">>,<<"ü">>,<<"ý">>,<<"þ">>,<<"U+0101">>,<<"U+0103">>,
     <<"U+0105">>,<<"U+0107">>,<<"U+0109">>,<<"U+010B">>,<<"U+010D">>,<<"U+010F">>,<<"U+0111">>,
     <<"U+0113">>,<<"U+0115">>,<<"U+0117">>,<<"U+0119">>,<<"U+011B">>,<<"U+011D">>,<<"U+011F">>,
     <<"U+0121">>,<<"U+0123">>,<<"U+0125">>,<<"U+0127">>,<<"U+0129">>,<<"U+012B">>,<<"U+012D">>,
     <<"U+012F">>,<<"i","U+0307">>,<<"U+0133">>,<<"U+0135">>,<<"U+0137">>,<<"U+013A">>,<<"U+013C">>,
     <<"U+013E">>,<<"U+0140">>,<<"U+0142">>,<<"U+0144">>,<<"U+0146">>,<<"U+0148">>,<<"U+014B">>,
     <<"U+014D">>,<<"U+014F">>,<<"U+0151">>,<<"U+0153">>,<<"U+0155">>,<<"U+0157">>,<<"U+0159">>,
     <<"U+015B">>,<<"U+015D">>,<<"U+015F">>,<<"U+0161">>,<<"U+0163">>,<<"U+0165">>,<<"U+0167">>,
     <<"U+0169">>,<<"U+016B">>,<<"U+016D">>,<<"U+016F">>,<<"U+0171">>,<<"U+0173">>,<<"U+0175">>,
     <<"U+0177">>,<<"ÿ">>,<<"U+017A">>,<<"U+017C">>,<<"U+017E">>,<<"U+0253">>,<<"ƃ">>,<<"ƅ">>,
     <<"U+0254">>,<<"ƈ">>,<<"U+0256">>,<<"U+0257">>,<<"ƌ">>,<<"ǝ">>,<<"U+0259">>,<<"U+025B">>,
     <<"ƒ">>,<<"U+0260">>,<<"U+0263">>,<<"U+0269">>,<<"U+0268">>,<<"ƙ">>,<<"U+026F">>,<<"U+0272">>,
     <<"U+0275">>,<<"ơ">>,<<"ƣ">>,<<"ƥ">>,<<"ʀ">>,<<"ƨ">>,<<"ʃ">>,<<"ƭ">>,<<"ʈ">>,<<"ư">>,<<"ʊ">>,
     <<"ʋ">>,<<"ƴ">>,<<"ƶ">>,<<"ʒ">>,<<"ƹ">>,<<"ƽ">>,<<"ǆ">>,<<"ǆ">>,<<"ǉ">>,<<"ǉ">>,<<"ǌ">>,
     <<"ǌ">>,<<"ǎ">>,<<"ǐ">>,<<"ǒ">>,<<"ǔ">>,<<"ǖ">>,<<"ǘ">>,<<"ǚ">>,<<"ǜ">>,<<"ǟ">>,<<"ǡ">>,
     <<"ǣ">>,<<"ǥ">>,<<"ǧ">>,<<"ǩ">>,<<"ǫ">>,<<"ǭ">>,<<"ǯ">>,<<"ǳ">>,<<"ǳ">>,<<"ǵ">>,<<"ƕ">>,
     <<"ƿ">>,<<"ǹ">>,<<"ǻ">>,<<"ǽ">>,<<"ǿ">>,<<"U+0201">>,<<"U+0203">>,<<"U+0205">>,<<"U+0207">>,
     <<"U+0209">>,<<"U+020B">>,<<"U+020D">>,<<"U+020F">>,<<"U+0211">>,<<"U+0213">>,<<"U+0215">>,
     <<"U+0217">>,<<"U+0219">>,<<"U+021B">>,<<"U+021D">>,<<"U+021F">>,<<"ƞ">>,<<"U+0223">>,
     <<"U+0225">>,<<"U+0227">>,<<"U+0229">>,<<"U+022B">>,<<"U+022D">>,<<"U+022F">>,<<"U+0231">>,
     <<"U+0233">>,<<"U+2C65">>,<<"U+023C">>,<<"ƚ">>,<<"U+2C66">>,<<"U+0242">>,<<"ƀ">>,<<"ʉ">>,
     <<"ʌ">>,<<"U+0247">>,<<"U+0249">>,<<"U+024B">>,<<"U+024D">>,<<"U+024F">>,<<"U+0371">>,
     <<"U+0373">>,<<"U+0377">>,<<"ϳ">>,<<"ά">>,<<"έ">>,<<"ή">>,<<"ί">>,<<"ό">>,<<"ύ">>,<<"ώ">>,
     <<"α">>,<<"β">>,<<"γ">>,<<"δ">>,<<"ε">>,<<"ζ">>,<<"η">>,<<"θ">>,<<"ι">>,<<"κ">>,<<"λ">>,
     <<"μ">>,<<"ν">>,<<"ξ">>,<<"ο">>,<<"π">>,<<"ρ">>,<<"σ">>,<<"τ">>,<<"υ">>,<<"φ">>,<<"χ">>,
     <<"ψ">>,<<"ω">>,<<"ϊ">>,<<"ϋ">>,<<"ϗ">>,<<"ϙ">>,<<"ϛ">>,<<"ϝ">>,<<"ϟ">>,<<"ϡ">>,<<"ϣ">>,
     <<"ϥ">>,<<"ϧ">>,<<"ϩ">>,<<"ϫ">>,<<"ϭ">>,<<"ϯ">>,<<"θ">>,<<"ϸ">>,<<"ϲ">>,<<"ϻ">>,<<"U+037B">>,
     <<"U+037C">>,<<"U+037D">>,<<"U+0450">>,<<"U+0451">>,<<"U+0452">>,<<"U+0453">>,<<"U+0454">>,
     <<"U+0455">>,<<"U+0456">>,<<"U+0457">>,<<"U+0458">>,<<"U+0459">>,<<"U+045A">>,<<"U+045B">>,
     <<"U+045C">>,<<"U+045D">>,<<"U+045E">>,<<"U+045F">>,<<"U+0430">>,<<"U+0431">>,<<"U+0432">>,
     <<"U+0433">>,<<"U+0434">>,<<"U+0435">>,<<"U+0436">>,<<"U+0437">>,<<"U+0438">>,<<"U+0439">>,
     <<"U+043A">>,<<"U+043B">>,<<"U+043C">>,<<"U+043D">>,<<"U+043E">>,<<"U+043F">>,<<"U+0440">>,
     <<"U+0441">>,<<"U+0442">>,<<"U+0443">>,<<"U+0444">>,<<"U+0445">>,<<"U+0446">>,<<"U+0447">>,
     <<"U+0448">>,<<"U+0449">>,<<"U+044A">>,<<"U+044B">>,<<"U+044C">>,<<"U+044D">>,<<"U+044E">>,
     <<"U+044F">>,<<"U+0461">>,<<"U+0463">>,<<"U+0465">>,<<"U+0467">>,<<"U+0469">>,<<"U+046B">>,
     <<"U+046D">>,<<"U+046F">>,<<"U+0471">>,<<"U+0473">>,<<"U+0475">>,<<"U+0477">>,<<"U+0479">>,
     <<"U+047B">>,<<"U+047D">>,<<"U+047F">>,<<"ҁ">>,<<"ҋ">>,<<"ҍ">>,<<"ҏ">>,<<"ґ">>,<<"ғ">>,<<"ҕ">>,
     <<"җ">>,<<"ҙ">>,<<"қ">>,<<"ҝ">>,<<"ҟ">>,<<"ҡ">>,<<"ң">>,<<"ҥ">>,<<"ҧ">>,<<"ҩ">>,<<"ҫ">>,
     <<"ҭ">>,<<"ү">>,<<"ұ">>,<<"ҳ">>,<<"ҵ">>,<<"ҷ">>,<<"ҹ">>,<<"һ">>,<<"ҽ">>,<<"ҿ">>,<<"ӏ">>,
     <<"ӂ">>,<<"ӄ">>,<<"ӆ">>,<<"ӈ">>,<<"ӊ">>,<<"ӌ">>,<<"ӎ">>,<<"ӑ">>,<<"ӓ">>,<<"ӕ">>,<<"ӗ">>,
     <<"ә">>,<<"ӛ">>,<<"ӝ">>,<<"ӟ">>,<<"ӡ">>,<<"ӣ">>,<<"ӥ">>,<<"ӧ">>,<<"ө">>,<<"ӫ">>,<<"ӭ">>,
     <<"ӯ">>,<<"ӱ">>,<<"ӳ">>,<<"ӵ">>,<<"ӷ">>,<<"ӹ">>,<<"ӻ">>,<<"ӽ">>,<<"ӿ">>,<<"U+0501">>,
     <<"U+0503">>,<<"U+0505">>,<<"U+0507">>,<<"U+0509">>,<<"U+050B">>,<<"U+050D">>,<<"U+050F">>,
     <<"U+0511">>,<<"U+0513">>,<<"U+0515">>,<<"U+0517">>,<<"U+0519">>,<<"U+051B">>,<<"U+051D">>,
     <<"U+051F">>,<<"U+0521">>,<<"U+0523">>,<<"U+0525">>,<<"U+0527">>,<<"U+0529">>,<<"U+052B">>,
     <<"U+052D">>,<<"U+052F">>,<<"U+0561">>,<<"U+0562">>,<<"U+0563">>,<<"U+0564">>,<<"U+0565">>,
     <<"U+0566">>,<<"U+0567">>,<<"U+0568">>,<<"U+0569">>,<<"U+056A">>,<<"U+056B">>,<<"U+056C">>,
     <<"U+056D">>,<<"U+056E">>,<<"U+056F">>,<<"U+0570">>,<<"U+0571">>,<<"U+0572">>,<<"U+0573">>,
     <<"U+0574">>,<<"U+0575">>,<<"U+0576">>,<<"U+0577">>,<<"U+0578">>,<<"U+0579">>,<<"U+057A">>,
     <<"U+057B">>,<<"U+057C">>,<<"U+057D">>,<<"U+057E">>,<<"U+057F">>,<<"ր">>,<<"ց">>,<<"ւ">>,
     <<"փ">>,<<"ք">>,<<"օ">>,<<"ֆ">>,<<"U+2D00">>,<<"U+2D01">>,<<"U+2D02">>,<<"U+2D03">>,
     <<"U+2D04">>,<<"U+2D05">>,<<"U+2D06">>,<<"U+2D07">>,<<"U+2D08">>,<<"U+2D09">>,<<"U+2D0A">>,
     <<"U+2D0B">>,<<"U+2D0C">>,<<"U+2D0D">>,<<"U+2D0E">>,<<"U+2D0F">>,<<"U+2D10">>,<<"U+2D11">>,
     <<"U+2D12">>,<<"U+2D13">>,<<"U+2D14">>,<<"U+2D15">>,<<"U+2D16">>,<<"U+2D17">>,<<"U+2D18">>,
     <<"U+2D19">>,<<"U+2D1A">>,<<"U+2D1B">>,<<"U+2D1C">>,<<"U+2D1D">>,<<"U+2D1E">>,<<"U+2D1F">>,
     <<"U+2D20">>,<<"U+2D21">>,<<"U+2D22">>,<<"U+2D23">>,<<"U+2D24">>,<<"U+2D25">>,<<"U+2D27">>,
     <<"U+2D2D">>,<<"U+AB70">>,<<"U+AB71">>,<<"U+AB72">>,<<"U+AB73">>,<<"U+AB74">>,<<"U+AB75">>,
     <<"U+AB76">>,<<"U+AB77">>,<<"U+AB78">>,<<"U+AB79">>,<<"U+AB7A">>,<<"U+AB7B">>,<<"U+AB7C">>,
     <<"U+AB7D">>,<<"U+AB7E">>,<<"U+AB7F">>,<<"ꮀ">>,<<"ꮁ">>,<<"ꮂ">>,<<"ꮃ">>,<<"ꮄ">>,<<"ꮅ">>,<<"ꮆ">>,
     <<"ꮇ">>,<<"ꮈ">>,<<"ꮉ">>,<<"ꮊ">>,<<"ꮋ">>,<<"ꮌ">>,<<"ꮍ">>,<<"ꮎ">>,<<"ꮏ">>,<<"ꮐ">>,<<"ꮑ">>,
     <<"ꮒ">>,<<"ꮓ">>,<<"ꮔ">>,<<"ꮕ">>,<<"ꮖ">>,<<"ꮗ">>,<<"ꮘ">>,<<"ꮙ">>,<<"ꮚ">>,<<"ꮛ">>,<<"ꮜ">>,
     <<"ꮝ">>,<<"ꮞ">>,<<"ꮟ">>,<<"ꮠ">>,<<"ꮡ">>,<<"ꮢ">>,<<"ꮣ">>,<<"ꮤ">>,<<"ꮥ">>,<<"ꮦ">>,<<"ꮧ">>,
     <<"ꮨ">>,<<"ꮩ">>,<<"ꮪ">>,<<"ꮫ">>,<<"ꮬ">>,<<"ꮭ">>,<<"ꮮ">>,<<"ꮯ">>,<<"ꮰ">>,<<"ꮱ">>,<<"ꮲ">>,
     <<"ꮳ">>,<<"ꮴ">>,<<"ꮵ">>,<<"ꮶ">>,<<"ꮷ">>,<<"ꮸ">>,<<"ꮹ">>,<<"ꮺ">>,<<"ꮻ">>,<<"ꮼ">>,<<"ꮽ">>,
     <<"ꮾ">>,<<"ꮿ">>,<<"ᏸ">>,<<"ᏹ">>,<<"ᏺ">>,<<"ᏻ">>,<<"ᏼ">>,<<"ᏽ">>,<<"ᲊ">>,<<"ა">>,<<"ბ">>,
     <<"გ">>,<<"დ">>,<<"ე">>,<<"ვ">>,<<"ზ">>,<<"თ">>,<<"ი">>,<<"კ">>,<<"ლ">>,<<"მ">>,<<"ნ">>,
     <<"ო">>,<<"პ">>,<<"ჟ">>,<<"რ">>,<<"ს">>,<<"ტ">>,<<"უ">>,<<"ფ">>,<<"ქ">>,<<"ღ">>,<<"ყ">>,
     <<"შ">>,<<"ჩ">>,<<"ც">>,<<"ძ">>,<<"წ">>,<<"ჭ">>,<<"ხ">>,<<"ჯ">>,<<"ჰ">>,<<"ჱ">>,<<"ჲ">>,
     <<"ჳ">>,<<"ჴ">>,<<"ჵ">>,<<"ჶ">>,<<"ჷ">>,<<"ჸ">>,<<"ჹ">>,<<"ჺ">>,<<"ჽ">>,<<"ჾ">>,<<"ჿ">>,
     <<"U+1E01">>,<<"U+1E03">>,<<"U+1E05">>,<<"U+1E07">>,<<"U+1E09">>,<<"U+1E0B">>,<<"U+1E0D">>,
     <<"U+1E0F">>,<<"U+1E11">>,<<"U+1E13">>,<<"U+1E15">>,<<"U+1E17">>,<<"U+1E19">>,<<"U+1E1B">>,
     <<"U+1E1D">>,<<"U+1E1F">>,<<"U+1E21">>,<<"U+1E23">>,<<"U+1E25">>,<<"U+1E27">>,<<"U+1E29">>,
     <<"U+1E2B">>,<<"U+1E2D">>,<<"U+1E2F">>,<<"U+1E31">>,<<"U+1E33">>,<<"U+1E35">>,<<"U+1E37">>,
     <<"U+1E39">>,<<"U+1E3B">>,<<"U+1E3D">>,<<"U+1E3F">>,<<"U+1E41">>,<<"U+1E43">>,<<"U+1E45">>,
     <<"U+1E47">>,<<"U+1E49">>,<<"U+1E4B">>,<<"U+1E4D">>,<<"U+1E4F">>,<<"U+1E51">>,<<"U+1E53">>,
     <<"U+1E55">>,<<"U+1E57">>,<<"U+1E59">>,<<"U+1E5B">>,<<"U+1E5D">>,<<"U+1E5F">>,<<"U+1E61">>,
     <<"U+1E63">>,<<"U+1E65">>,<<"U+1E67">>,<<"U+1E69">>,<<"U+1E6B">>,<<"U+1E6D">>,<<"U+1E6F">>,
     <<"U+1E71">>,<<"U+1E73">>,<<"U+1E75">>,<<"U+1E77">>,<<"U+1E79">>,<<"U+1E7B">>,<<"U+1E7D">>,
     <<"U+1E7F">>,<<"ẁ">>,<<"ẃ">>,<<"ẅ">>,<<"ẇ">>,<<"ẉ">>,<<"ẋ">>,<<"ẍ">>,<<"ẏ">>,<<"ẑ">>,<<"ẓ">>,
     <<"ẕ">>,<<"ß">>,<<"ạ">>,<<"ả">>,<<"ấ">>,<<"ầ">>,<<"ẩ">>,<<"ẫ">>,<<"ậ">>,<<"ắ">>,<<"ằ">>,
     <<"ẳ">>,<<"ẵ">>,<<"ặ">>,<<"ẹ">>,<<"ẻ">>,<<"ẽ">>,<<"ế">>,<<"ề">>,<<"ể">>,<<"ễ">>,<<"ệ">>,
     <<"ỉ">>,<<"ị">>,<<"ọ">>,<<"ỏ">>,<<"ố">>,<<"ồ">>,<<"ổ">>,<<"ỗ">>,<<"ộ">>,<<"ớ">>,<<"ờ">>,
     <<"ở">>,<<"ỡ">>,<<"ợ">>,<<"ụ">>,<<"ủ">>,<<"ứ">>,<<"ừ">>,<<"ử">>,<<"ữ">>,<<"ự">>,<<"ỳ">>,
     <<"ỵ">>,<<"ỷ">>,<<"ỹ">>,<<"ỻ">>,<<"ỽ">>,<<"ỿ">>,<<"U+1F00">>,<<"U+1F01">>,<<"U+1F02">>,
     <<"U+1F03">>,<<"U+1F04">>,<<"U+1F05">>,<<"U+1F06">>,<<"U+1F07">>,<<"U+1F10">>,<<"U+1F11">>,
     <<"U+1F12">>,<<"U+1F13">>,<<"U+1F14">>,<<"U+1F15">>,<<"U+1F20">>,<<"U+1F21">>,<<"U+1F22">>,
     <<"U+1F23">>,<<"U+1F24">>,<<"U+1F25">>,<<"U+1F26">>,<<"U+1F27">>,<<"U+1F30">>,<<"U+1F31">>,
     <<"U+1F32">>,<<"U+1F33">>,<<"U+1F34">>,<<"U+1F35">>,<<"U+1F36">>,<<"U+1F37">>,<<"U+1F40">>,
     <<"U+1F41">>,<<"U+1F42">>,<<"U+1F43">>,<<"U+1F44">>,<<"U+1F45">>,<<"U+1F51">>,<<"U+1F53">>,
     <<"U+1F55">>,<<"U+1F57">>,<<"U+1F60">>,<<"U+1F61">>,<<"U+1F62">>,<<"U+1F63">>,<<"U+1F64">>,
     <<"U+1F65">>,<<"U+1F66">>,<<"U+1F67">>,<<"ᾀ">>,<<"ᾁ">>,<<"ᾂ">>,<<"ᾃ">>,<<"ᾄ">>,<<"ᾅ">>,<<"ᾆ">>,
     <<"ᾇ">>,<<"ᾐ">>,<<"ᾑ">>,<<"ᾒ">>,<<"ᾓ">>,<<"ᾔ">>,<<"ᾕ">>,<<"ᾖ">>,<<"ᾗ">>,<<"ᾠ">>,<<"ᾡ">>,
     <<"ᾢ">>,<<"ᾣ">>,<<"ᾤ">>,<<"ᾥ">>,<<"ᾦ">>,<<"ᾧ">>,<<"ᾰ">>,<<"ᾱ">>,<<"U+1F70">>,<<"U+1F71">>,
     <<"ᾳ">>,<<"U+1F72">>,<<"U+1F73">>,<<"U+1F74">>,<<"U+1F75">>,<<"ῃ">>,<<"ῐ">>,<<"ῑ">>,
     <<"U+1F76">>,<<"U+1F77">>,<<"ῠ">>,<<"ῡ">>,<<"U+1F7A">>,<<"U+1F7B">>,<<"ῥ">>,<<"U+1F78">>,
     <<"U+1F79">>,<<"U+1F7C">>,<<"U+1F7D">>,<<"ῳ">>,<<"ω">>,<<"k">>,<<"å">>,<<"U+214E">>,
     <<"U+2170">>,<<"U+2171">>,<<"U+2172">>,<<"U+2173">>,<<"U+2174">>,<<"U+2175">>,<<"U+2176">>,
     <<"U+2177">>,<<"U+2178">>,<<"U+2179">>,<<"U+217A">>,<<"U+217B">>,<<"U+217C">>,<<"U+217D">>,
     <<"U+217E">>,<<"U+217F">>,<<"ↄ">>,<<"ⓐ">>,<<"ⓑ">>,<<"ⓒ">>,<<"ⓓ">>,<<"ⓔ">>,<<"ⓕ">>,<<"ⓖ">>,
     <<"ⓗ">>,<<"ⓘ">>,<<"ⓙ">>,<<"ⓚ">>,<<"ⓛ">>,<<"ⓜ">>,<<"ⓝ">>,<<"ⓞ">>,<<"ⓟ">>,<<"ⓠ">>,<<"ⓡ">>,
     <<"ⓢ">>,<<"ⓣ">>,<<"ⓤ">>,<<"ⓥ">>,<<"ⓦ">>,<<"ⓧ">>,<<"ⓨ">>,<<"ⓩ">>,<<"U+2C30">>,<<"U+2C31">>,
     <<"U+2C32">>,<<"U+2C33">>,<<"U+2C34">>,<<"U+2C35">>,<<"U+2C36">>,<<"U+2C37">>,<<"U+2C38">>,
     <<"U+2C39">>,<<"U+2C3A">>,<<"U+2C3B">>,<<"U+2C3C">>,<<"U+2C3D">>,<<"U+2C3E">>,<<"U+2C3F">>,
     <<"U+2C40">>,<<"U+2C41">>,<<"U+2C42">>,<<"U+2C43">>,<<"U+2C44">>,<<"U+2C45">>,<<"U+2C46">>,
     <<"U+2C47">>,<<"U+2C48">>,<<"U+2C49">>,<<"U+2C4A">>,<<"U+2C4B">>,<<"U+2C4C">>,<<"U+2C4D">>,
     <<"U+2C4E">>,<<"U+2C4F">>,<<"U+2C50">>,<<"U+2C51">>,<<"U+2C52">>,<<"U+2C53">>,<<"U+2C54">>,
     <<"U+2C55">>,<<"U+2C56">>,<<"U+2C57">>,<<"U+2C58">>,<<"U+2C59">>,<<"U+2C5A">>,<<"U+2C5B">>,
     <<"U+2C5C">>,<<"U+2C5D">>,<<"U+2C5E">>,<<"U+2C5F">>,<<"U+2C61">>,<<"U+026B">>,<<"U+1D7D">>,
     <<"U+027D">>,<<"U+2C68">>,<<"U+2C6A">>,<<"U+2C6C">>,<<"U+0251">>,<<"U+0271">>,<<"U+0250">>,
     <<"U+0252">>,<<"U+2C73">>,<<"U+2C76">>,<<"U+023F">>,<<"U+0240">>,<<"ⲁ">>,<<"ⲃ">>,<<"ⲅ">>,
     <<"ⲇ">>,<<"ⲉ">>,<<"ⲋ">>,<<"ⲍ">>,<<"ⲏ">>,<<"ⲑ">>,<<"ⲓ">>,<<"ⲕ">>,<<"ⲗ">>,<<"ⲙ">>,<<"ⲛ">>,
     <<"ⲝ">>,<<"ⲟ">>,<<"ⲡ">>,<<"ⲣ">>,<<"ⲥ">>,<<"ⲧ">>,<<"ⲩ">>,<<"ⲫ">>,<<"ⲭ">>,<<"ⲯ">>,<<"ⲱ">>,
     <<"ⲳ">>,<<"ⲵ">>,<<"ⲷ">>,<<"ⲹ">>,<<"ⲻ">>,<<"ⲽ">>,<<"ⲿ">>,<<"ⳁ">>,<<"ⳃ">>,<<"ⳅ">>,<<"ⳇ">>,
     <<"ⳉ">>,<<"ⳋ">>,<<"ⳍ">>,<<"ⳏ">>,<<"ⳑ">>,<<"ⳓ">>,<<"ⳕ">>,<<"ⳗ">>,<<"ⳙ">>,<<"ⳛ">>,<<"ⳝ">>,
     <<"ⳟ">>,<<"ⳡ">>,<<"ⳣ">>,<<"ⳬ">>,<<"ⳮ">>,<<"ⳳ">>,<<"U+A641">>,<<"U+A643">>,<<"U+A645">>,
     <<"U+A647">>,<<"U+A649">>,<<"U+A64B">>,<<"U+A64D">>,<<"U+A64F">>,<<"U+A651">>,<<"U+A653">>,
     <<"U+A655">>,<<"U+A657">>,<<"U+A659">>,<<"U+A65B">>,<<"U+A65D">>,<<"U+A65F">>,<<"U+A661">>,
     <<"U+A663">>,<<"U+A665">>,<<"U+A667">>,<<"U+A669">>,<<"U+A66B">>,<<"U+A66D">>,<<"ꚁ">>,<<"ꚃ">>,
     <<"ꚅ">>,<<"ꚇ">>,<<"ꚉ">>,<<"ꚋ">>,<<"ꚍ">>,<<"ꚏ">>,<<"ꚑ">>,<<"ꚓ">>,<<"ꚕ">>,<<"ꚗ">>,<<"ꚙ">>,
     <<"ꚛ">>,<<"U+A723">>,<<"U+A725">>,<<"U+A727">>,<<"U+A729">>,<<"U+A72B">>,<<"U+A72D">>,
     <<"U+A72F">>,<<"U+A733">>,<<"U+A735">>,<<"U+A737">>,<<"U+A739">>,<<"U+A73B">>,<<"U+A73D">>,
     <<"U+A73F">>,<<"U+A741">>,<<"U+A743">>,<<"U+A745">>,<<"U+A747">>,<<"U+A749">>,<<"U+A74B">>,
     <<"U+A74D">>,<<"U+A74F">>,<<"U+A751">>,<<"U+A753">>,<<"U+A755">>,<<"U+A757">>,<<"U+A759">>,
     <<"U+A75B">>,<<"U+A75D">>,<<"U+A75F">>,<<"U+A761">>,<<"U+A763">>,<<"U+A765">>,<<"U+A767">>,
     <<"U+A769">>,<<"U+A76B">>,<<"U+A76D">>,<<"U+A76F">>,<<"U+A77A">>,<<"U+A77C">>,<<"U+1D79">>,
     <<"U+A77F">>,<<"ꞁ">>,<<"ꞃ">>,<<"ꞅ">>,<<"ꞇ">>,<<"ꞌ">>,<<"U+0265">>,<<"ꞑ">>,<<"ꞓ">>,<<"ꞗ">>,
     <<"ꞙ">>,<<"ꞛ">>,<<"ꞝ">>,<<"ꞟ">>,<<"ꞡ">>,<<"ꞣ">>,<<"ꞥ">>,<<"ꞧ">>,<<"ꞩ">>,<<"U+0266">>,
     <<"U+025C">>,<<"U+0261">>,<<"U+026C">>,<<"U+026A">>,<<"ʞ">>,<<"ʇ">>,<<"ʝ">>,<<"U+AB53">>,
     <<"ꞵ">>,<<"ꞷ">>,<<"ꞹ">>,<<"ꞻ">>,<<"ꞽ">>,<<"ꞿ">>,<<"ꟁ">>,<<"ꟃ">>,<<"ꞔ">>,<<"ʂ">>,<<"ᶎ">>,
     <<"ꟈ">>,<<"ꟊ">>,<<"U+0264">>,<<"ꟍ">>,<<"꟏">>,<<"ꟑ">>,<<"ꟓ">>,<<"ꟕ">>,<<"ꟗ">>,<<"ꟙ">>,<<"ꟛ">>,
     <<"ƛ">>,<<"ꟶ">>,<<"U+FF41">>,<<"U+FF42">>,<<"U+FF43">>,<<"U+FF44">>,<<"U+FF45">>,<<"U+FF46">>,
     <<"U+FF47">>,<<"U+FF48">>,<<"U+FF49">>,<<"U+FF4A">>,<<"U+FF4B">>,<<"U+FF4C">>,<<"U+FF4D">>,
     <<"U+FF4E">>,<<"U+FF4F">>,<<"U+FF50">>,<<"U+FF51">>,<<"U+FF52">>,<<"U+FF53">>,<<"U+FF54">>,
     <<"U+FF55">>,<<"U+FF56">>,<<"U+FF57">>,<<"U+FF58">>,<<"U+FF59">>,<<"U+FF5A">>>>

\* the characters other than a-z that String.prototype.toUpperCase changes,
\* and what it gives for each: one character or more
UpperCaseFrom == 
    <<"µ","ß","à","á","â","ã","ä","å","æ","ç","è","é","ê","ë","ì","í","î","ï","ð","ñ","ò","ó","ô",
     "õ","ö","ø","ù","ú","û","ü","ý","þ","ÿ","U+0101","U+0103","U+0105","U+0107","U+0109","U+010B",
     "U+010D","U+010F","U+0111","U+0113","U+0115","U+0117","U+0119","U+011B","U+011D","U+011F",
     "U+0121","U+0123","U+0125","U+0127","U+0129","U+012B","U+012D","U+012F","U+0131","U+0133",
     "U+0135","U+0137","U+013A","U+013C","U+013E","U+0140","U+0142","U+0144","U+0146","U+0148",
     "U+0149","U+014B","U+014D","U+014F","U+0151","U+0153","U+0155","U+0157","U+0159","U+015B",
     "U+015D","U+015F","U+0161","U+0163","U+0165","U+0167","U+0169","U+016B","U+016D","U+016F",
     "U+0171","U+0173","U+0175","U+0177","U+017A","U+017C","U+017E","U+017F","ƀ","ƃ","ƅ","ƈ","ƌ",
     "ƒ","ƕ","ƙ","ƚ","ƛ","ƞ","ơ","ƣ","ƥ","ƨ","ƭ","ư","ƴ","ƶ","ƹ","ƽ","ƿ","ǅ","ǆ","ǈ","ǉ","ǋ","ǌ",
     "ǎ","ǐ","ǒ","ǔ","ǖ","ǘ","ǚ","ǜ","ǝ","ǟ","ǡ","ǣ","ǥ","ǧ","ǩ","ǫ","ǭ","ǯ","ǰ","ǲ","ǳ","ǵ","ǹ",
     "ǻ","ǽ","ǿ","U+0201","U+0203","U+0205","U+0207","U+0209","U+020B","U+020D","U+020F","U+0211",
     "U+0213","U+0215","U+0217","U+0219","U+021B","U+021D","U+021F","U+0223","U+0225","U+0227",
     "U+0229","U+022B","U+022D","U+022F","U+0231","U+0233","U+023C","U+023F","U+0240","U+0242",
     "U+0247","U+0249","U+024B","U+024D","U+024F","U+0250","U+0251","U+0252","U+0253","U+0254",
     "U+0256","U+0257","U+0259","U+025B","U+025C","U+0260","U+0261","U+0263","U+0264","U+0265",
     "U+0266","U+0268","U+0269","U+026A","U+026B","U+026C","U+026F","U+0271","U+0272","U+0275",
     "U+027D","ʀ","ʂ","ʃ","ʇ","ʈ","ʉ","ʊ","ʋ","ʌ","ʒ","ʝ","ʞ","U+0345","U+0371","U+0373","U+0377",
     "U+037B","U+037C","U+037D","ΐ","ά","έ","ή","ί","ΰ","α","β","γ","δ","ε","ζ","η","θ","ι","κ","λ",
     "μ","ν","ξ","ο","π","ρ","ς","σ","τ","υ","φ","χ","ψ","ω","ϊ","ϋ","ό","ύ","ώ","ϐ","ϑ","ϕ","ϖ",
     "ϗ","ϙ","ϛ","ϝ","ϟ","ϡ","ϣ","ϥ","ϧ","ϩ","ϫ","ϭ","ϯ","ϰ","ϱ","ϲ","ϳ","ϵ","ϸ","ϻ","U+0430",
     "U+0431","U+0432","U+0433","U+0434","U+0435","U+0436","U+0437","U+0438","U+0439","U+043A",
     "U+043B","U+043C","U+043D","U+043E","U+043F","U+0440","U+0441","U+0442","U+0443","U+0444",
     "U+0445","U+0446","U+0447","U+0448","U+0449","U+044A","U+044B","U+044C","U+044D","U+044E",
     "U+044F","U+0450","U+0451","U+0452","U+0453","U+0454","U+0455","U+0456","U+0457","U+0458",
     "U+0459","U+045A","U+045B","U+045C","U+045D","U+045E","U+045F","U+0461","U+0463","U+0465",
     "U+0467","U+0469","U+046B","U+046D","U+046F","U+0471","U+0473","U+0475","U+0477","U+0479",
     "U+047B","U+047D","U+047F","ҁ","ҋ","ҍ","ҏ","ґ","ғ","ҕ","җ","ҙ","қ","ҝ","ҟ","ҡ","ң","ҥ","ҧ","ҩ",
     "ҫ","ҭ","ү","ұ","ҳ","ҵ","ҷ","ҹ","һ","ҽ","ҿ","ӂ","ӄ","ӆ","ӈ","ӊ","ӌ","ӎ","ӏ","ӑ","ӓ","ӕ","ӗ",
     "ә","ӛ","ӝ","ӟ","ӡ","ӣ","ӥ","ӧ","ө","ӫ","ӭ","ӯ","ӱ","ӳ","ӵ","ӷ","ӹ","ӻ","ӽ","ӿ","U+0501",
     "U+0503","U+0505","U+0507","U+0509","U+050B","U+050D","U+050F","U+0511","U+0513","U+0515",
     "U+0517","U+0519","U+051B","U+051D","U+051F","U+0521","U+0523","U+0525","U+0527","U+0529",
     "U+052B","U+052D","U+052F","U+0561","U+0562","U+0563","U+0564","U+0565","U+0566","U+0567",
     "U+0568","U+0569","U+056A","U+056B","U+056C","U+056D","U+056E","U+056F","U+0570","U+0571",
     "U+0572","U+0573","U+0574","U+0575","U+0576","U+0577","U+0578","U+0579","U+057A","U+057B",
     "U+057C","U+057D","U+057E","U+057F","ր","ց","ւ","փ","ք","օ","ֆ","և","ა","ბ","გ","დ","ე","ვ",
     "ზ","თ","ი","კ","ლ","მ","ნ","ო","პ","ჟ","რ","ს","ტ","უ","ფ","ქ","ღ","ყ","შ","ჩ","ც","ძ","წ",
     "ჭ","ხ","ჯ","ჰ","ჱ","ჲ","ჳ","ჴ","ჵ","ჶ","ჷ","ჸ","ჹ","ჺ","ჽ","ჾ","ჿ","ᏸ","ᏹ","ᏺ","ᏻ","ᏼ","ᏽ",
     "ᲀ","ᲁ","ᲂ","ᲃ","ᲄ","ᲅ","ᲆ","ᲇ","ᲈ","ᲊ","U+1D79","U+1D7D","ᶎ","U+1E01","U+1E03","U+1E05",
     "U+1E07","U+1E09","U+1E0B","U+1E0D","U+1E0F","U+1E11","U+1E13","U+1E15","U+1E17","U+1E19",
     "U+1E1B","U+1E1D","U+1E1F","U+1E21","U+1E23","U+1E25","U+1E27","U+1E29","U+1E2B","U+1E2D",
     "U+1E2F","U+1E31","U+1E33","U+1E35","U+1E37","U+1E39","U+1E3B","U+1E3D","U+1E3F","U+1E41",
     "U+1E43","U+1E45","U+1E47","U+1E49","U+1E4B","U+1E4D","U+1E4F","U+1E51","U+1E53","U+1E55",
     "U+1E57","U+1E59","U+1E5B","U+1E5D","U+1E5F","U+1E61","U+1E63","U+1E65","U+1E67","U+1E69",
     "U+1E6B","U+1E6D","U+1E6F","U+1E71","U+1E73","U+1E75","U+1E77","U+1E79","U+1E7B","U+1E7D",
     "U+1E7F","ẁ","ẃ","ẅ","ẇ","ẉ","ẋ","ẍ","ẏ","ẑ","ẓ","ẕ","ẖ","ẗ","ẘ","ẙ","ẚ","ẛ","ạ","ả","ấ","ầ",
     "ẩ","ẫ","ậ","ắ","ằ","ẳ","ẵ","ặ","ẹ","ẻ","ẽ","ế","ề","ể","ễ","ệ","ỉ","ị","ọ","ỏ","ố","ồ","ổ",
     "ỗ","ộ","ớ","ờ","ở","ỡ","ợ","ụ","ủ","ứ","ừ","ử","ữ","ự","ỳ","ỵ","ỷ","ỹ","ỻ","ỽ","ỿ","U+1F00",
     "U+1F01","U+1F02","U+1F03","U+1F04","U+1F05","U+1F06","U+1F07","U+1F10","U+1F11","U+1F12",
     "U+1F13","U+1F14","U+1F15","U+1F20","U+1F21","U+1F22","U+1F23","U+1F24","U+1F25","U+1F26",
     "U+1F27","U+1F30","U+1F31","U+1F32","U+1F33","U+1F34","U+1F35","U+1F36","U+1F37","U+1F40",
     "U+1F41","U+1F42","U+1F43","U+1F44","U+1F45","U+1F50","U+1F51","U+1F52","U+1F53","U+1F54",
     "U+1F55","U+1F56","U+1F57","U+1F60","U+1F61","U+1F62","U+1F63","U+1F64","U+1F65","U+1F66",
     "U+1F67","U+1F70","U+1F71","U+1F72","U+1F73","U+1F74","U+1F75","U+1F76","U+1F77","U+1F78",
     "U+1F79","U+1F7A","U+1F7B","U+1F7C","U+1F7D","ᾀ","ᾁ","ᾂ","ᾃ","ᾄ","ᾅ","ᾆ","ᾇ","ᾈ","ᾉ","ᾊ","ᾋ",
     "ᾌ","ᾍ","ᾎ","ᾏ","ᾐ","ᾑ","ᾒ","ᾓ","ᾔ","ᾕ","ᾖ","ᾗ","ᾘ","ᾙ","ᾚ","ᾛ","ᾜ","ᾝ","ᾞ","ᾟ","ᾠ","ᾡ","ᾢ",
     "ᾣ","ᾤ","ᾥ","ᾦ","ᾧ","ᾨ","ᾩ","ᾪ","ᾫ","ᾬ","ᾭ","ᾮ","ᾯ","ᾰ","ᾱ","ᾲ","ᾳ","ᾴ","ᾶ","ᾷ","ᾼ","ι","ῂ",
     "ῃ","ῄ","ῆ","ῇ","ῌ","ῐ","ῑ","ῒ","ΐ","ῖ","ῗ","ῠ","ῡ","ῢ","ΰ","ῤ","ῥ","ῦ","ῧ","ῲ","ῳ","ῴ","ῶ",
     "ῷ","ῼ","U+214E","U+2170","U+2171","U+2172","U+2173","U+2174","U+2175","U+2176","U+2177",
     "U+2178","U+2179","U+217A","U+217B","U+217C","U+217D","U+217E","U+217F","ↄ","ⓐ","ⓑ","ⓒ","ⓓ",
     "ⓔ","ⓕ","ⓖ","ⓗ","ⓘ","ⓙ","ⓚ","ⓛ","ⓜ","ⓝ","ⓞ","ⓟ","ⓠ","ⓡ","ⓢ","ⓣ","ⓤ","ⓥ","ⓦ","ⓧ","ⓨ","ⓩ",
     "U+2C30","U+2C31","U+2C32","U+2C33","U+2C34","U+2C35","U+2C36","U+2C37","U+2C38","U+2C39",
     "U+2C3A","U+2C3B","U+2C3C","U+2C3D","U+2C3E","U+2C3F","U+2C40","U+2C41","U+2C42","U+2C43",
     "U+2C44","U+2C45","U+2C46","U+2C47","U+2C48","U+2C49","U+2C4A","U+2C4B","U+2C4C","U+2C4D",
     "U+2C4E","U+2C4F","U+2C50","U+2C51","U+2C52","U+2C53","U+2C54","U+2C55","U+2C56","U+2C57",
     "U+2C58","U+2C59","U+2C5A","U+2C5B","U+2C5C","U+2C5D","U+2C5E","U+2C5F","U+2C61","U+2C65",
     "U+2C66","U+2C68","U+2C6A","U+2C6C","U+2C73","U+2C76","ⲁ","ⲃ","ⲅ","ⲇ","ⲉ","ⲋ","ⲍ","ⲏ","ⲑ","ⲓ",
     "ⲕ","ⲗ","ⲙ","ⲛ","ⲝ","ⲟ","ⲡ","ⲣ","ⲥ","ⲧ","ⲩ","ⲫ","ⲭ","ⲯ","ⲱ","ⲳ","ⲵ","ⲷ","ⲹ","ⲻ","ⲽ","ⲿ","ⳁ",
     "ⳃ","ⳅ","ⳇ","ⳉ","ⳋ","ⳍ","ⳏ","ⳑ","ⳓ","ⳕ","ⳗ","ⳙ","ⳛ","ⳝ","ⳟ","ⳡ","ⳣ","ⳬ","ⳮ","ⳳ","U+2D00",
     "U+2D01","U+2D02","U+2D03","U+2D04","U+2D05","U+2D06","U+2D07","U+2D08","U+2D09","U+2D0A",
     "U+2D0B","U+2D0C","U+2D0D","U+2D0E","U+2D0F","U+2D10","U+2D11","U+2D12","U+2D13","U+2D14",
     "U+2D15","U+2D16","U+2D17","U+2D18","U+2D19","U+2D1A","U+2D1B","U+2D1C","U+2D1D","U+2D1E",
     "U+2D1F","U+2D20","U+2D21","U+2D22","U+2D23","U+2D24","U+2D25","U+2D27","U+2D2D","U+A641",
     "U+A643","U+A645","U+A647","U+A649","U+A64B","U+A64D","U+A64F","U+A651","U+A653","U+A655",
     "U+A657","U+A659","U+A65B","U+A65D","U+A65F","U+A661","U+A663","U+A665","U+A667","U+A669",
     "U+A66B","U+A66D","ꚁ","ꚃ","ꚅ","ꚇ","ꚉ","ꚋ","ꚍ","ꚏ","ꚑ","ꚓ","ꚕ","ꚗ","ꚙ","ꚛ","U+A723","U+A725",
     "U+A727","U+A729","U+A72B","U+A72D","U+A72F","U+A733","U+A735","U+A737","U+A739","U+A73B",
     "U+A73D","U+A73F","U+A741","U+A743","U+A745","U+A747","U+A749","U+A74B","U+A74D","U+A74F",
     "U+A751","U+A753","U+A755","U+A757","U+A759","U+A75B","U+A75D","U+A75F","U+A761","U+A763",
     "U+A765","U+A767","U+A769","U+A76B","U+A76D","U+A76F","U+A77A","U+A77C","U+A77F","ꞁ","ꞃ","ꞅ",
     "ꞇ","ꞌ","ꞑ","ꞓ","ꞔ","ꞗ","ꞙ","ꞛ","ꞝ","ꞟ","ꞡ","ꞣ","ꞥ","ꞧ","ꞩ","ꞵ","ꞷ","ꞹ","ꞻ","ꞽ","ꞿ","ꟁ","ꟃ",
     "ꟈ","ꟊ","ꟍ","꟏","ꟑ","ꟓ","ꟕ","ꟗ","ꟙ","ꟛ","ꟶ","U+AB53","U+AB70","U+AB71","U+AB72","U+AB73",
     "U+AB74","U+AB75","U+AB76","U+AB77","U+AB78","U+AB79","U+AB7A","U+AB7B","U+AB7C","U+AB7D",
     "U+AB7E","U+AB7F","ꮀ","ꮁ","ꮂ","ꮃ","ꮄ","ꮅ","ꮆ","ꮇ","ꮈ","ꮉ","ꮊ","ꮋ","ꮌ","ꮍ","ꮎ","ꮏ","ꮐ","ꮑ","ꮒ",
     "ꮓ","ꮔ","ꮕ","ꮖ","ꮗ","ꮘ","ꮙ","ꮚ","ꮛ","ꮜ","ꮝ","ꮞ","ꮟ","ꮠ","ꮡ","ꮢ","ꮣ","ꮤ","ꮥ","ꮦ","ꮧ","ꮨ","ꮩ",
     "ꮪ","ꮫ","ꮬ","ꮭ","ꮮ","ꮯ","ꮰ","ꮱ","ꮲ","ꮳ","ꮴ","ꮵ","ꮶ","ꮷ","ꮸ","ꮹ","ꮺ","ꮻ","ꮼ","ꮽ","ꮾ","ꮿ",
     "U+FB00","U+FB01","U+FB02","U+FB03","U+FB04","U+FB05","U+FB06","U+FB13","U+FB14","U+FB15",
     "U+FB16","U+FB17","U+FF41","U+FF42","U+FF43","U+FF44","U+FF45","U+FF46","U+FF47","U+FF48",
     "U+FF49","U+FF4A","U+FF4B","U+FF4C","U+FF4D","U+FF4E","U+FF4F","U+FF50","U+FF51","U+FF52",
     "U+FF53","U+FF54","U+FF55","U+FF56","U+FF57","U+FF58","U+FF59","U+FF5A">>

UpperCaseTo == 
    <<<<"Μ">>,<<"S","S">>,<<"À">>,<<"Á">>,<<"Â">>,<<"Ã">>,<<"Ä">>,<<"Å">>,<<"Æ">>,<<"Ç">>,<<"È">>,
     <<"É">>,<<"Ê">>,<<"Ë">>,<<"Ì">>,<<"Í">>,<<"Î">>,<<"Ï">>,<<"Ð">>,<<"Ñ">>,<<"Ò">>,<<"Ó">>,
     <<"Ô">>,<<"Õ">>,<<"Ö">>,<<"Ø">>,<<"Ù">>,<<"Ú">>,<<"Û">>,<<"Ü">>,<<"Ý">>,<<"Þ">>,<<"U+0178">>,
     <<"U+0100">>,<<"U+0102">>,<<"U+0104">>,<<"U+0106">>,<<"U+0108">>,<<"U+010A">>,<<"U+010C">>,
     <<"U+010E">>,<<"U+0110">>,<<"U+0112">>,<<"U+0114">>,<<"U+0116">>,<<"U+0118">>,<<"U+011A">>,
     <<"U+011C">>,<<"U+011E">>,<<"U+0120">>,<<"U+0122">>,<<"U+0124">>,<<"U+0126">>,<<"U+0128">>,
     <<"U+012A">>,<<"U+012C">>,<<"U+012E">>,<<"I">>,<<"U+0132">>,<<"U+0134">>,<<"U+0136">>,
     <<"U+0139">>,<<"U+013B">>,<<"U+013D">>,<<"U+013F">>,<<"U+0141">>,<<"U+0143">>,<<"U+0145">>,
     <<"U+0147">>,<<"ʼ","N">>,<<"U+014A">>,<<"U+014C">>,<<"U+014E">>,<<"U+0150">>,<<"U+0152">>,
     <<"U+0154">>,<<"U+0156">>,<<"U+0158">>,<<"U+015A">>,<<"U+015C">>,<<"U+015E">>,<<"U+0160">>,
     <<"U+0162">>,<<"U+0164">>,<<"U+0166">>,<<"U+0168">>,<<"U+016A">>,<<"U+016C">>,<<"U+016E">>,
     <<"U+0170">>,<<"U+0172">>,<<"U+0174">>,<<"U+0176">>,<<"U+0179">>,<<"U+017B">>,<<"U+017D">>,
     <<"S">>,<<"U+0243">>,<<"Ƃ">>,<<"Ƅ">>,<<"Ƈ">>,<<"Ƌ">>,<<"Ƒ">>,<<"Ƕ">>,<<"Ƙ">>,<<"U+023D">>,
     <<"Ƛ">>,<<"U+0220">>,<<"Ơ">>,<<"Ƣ">>,<<"Ƥ">>,<<"Ƨ">>,<<"Ƭ">>,<<"Ư">>,<<"Ƴ">>,<<"Ƶ">>,<<"Ƹ">>,
     <<"Ƽ">>,<<"Ƿ">>,<<"Ǆ">>,<<"Ǆ">>,<<"Ǉ">>,<<"Ǉ">>,<<"Ǌ">>,<<"Ǌ">>,<<"Ǎ">>,<<"Ǐ">>,<<"Ǒ">>,
     <<"Ǔ">>,<<"Ǖ">>,<<"Ǘ">>,<<"Ǚ">>,<<"Ǜ">>,<<"Ǝ">>,<<"Ǟ">>,<<"Ǡ">>,<<"Ǣ">>,<<"Ǥ">>,<<"Ǧ">>,
     <<"Ǩ">>,<<"Ǫ">>,<<"Ǭ">>,<<"Ǯ">>,<<"J","U+030C">>,<<"Ǳ">>,<<"Ǳ">>,<<"Ǵ">>,<<"Ǹ">>,<<"Ǻ">>,
     <<"Ǽ">>,<<"Ǿ">>,<<"U+0200">>,<<"U+0202">>,<<"U+0204">>,<<"U+0206">>,<<"U+0208">>,<<"U+020A">>,
     <<"U+020C">>,<<"U+020E">>,<<"U+0210">>,<<"U+0212">>,<<"U+0214">>,<<"U+0216">>,<<"U+0218">>,
     <<"U+021A">>,<<"U+021C">>,<<"U+021E">>,<<"U+0222">>,<<"U+0224">>,<<"U+0226">>,<<"U+0228">>,
     <<"U+022A">>,<<"U+022C">>,<<"U+022E">>,<<"U+0230">>,<<"U+0232">>,<<"U+023B">>,<<"U+2C7E">>,
     <<"U+2C7F">>,<<"U+0241">>,<<"U+0246">>,<<"U+0248">>,<<"U+024A">>,<<"U+024C">>,<<"U+024E">>,
     <<"U+2C6F">>,<<"U+2C6D">>,<<"U+2C70">>,<<"Ɓ">>,<<"Ɔ">>,<<"Ɖ">>,<<"Ɗ">>,<<"Ə">>,<<"Ɛ">>,<<"Ɜ">>,
     <<"Ɠ">>,<<"Ɡ">>,<<"Ɣ">>,<<"Ɤ">>,<<"Ɥ">>,<<"Ɦ">>,<<"Ɨ">>,<<"Ɩ">>,<<"Ɪ">>,<<"U+2C62">>,<<"Ɬ">>,
     <<"Ɯ">>,<<"U+2C6E">>,<<"Ɲ">>,<<"Ɵ">>,<<"U+2C64">>,<<"Ʀ">>,<<"Ʂ">>,<<"Ʃ">>,<<"Ʇ">>,<<"Ʈ">>,
     <<"U+0244">>,<<"Ʊ">>,<<"Ʋ">>,<<"U+0245">>,<<"Ʒ">>,<<"Ʝ">>,<<"Ʞ">>,<<"Ι">>,<<"U+0370">>,
     <<"U+0372">>,<<"U+0376">>,<<"Ͻ">>,<<"Ͼ">>,<<"Ͽ">>,<<"Ι","U+0308","U+0301">>,<<"Ά">>,<<"Έ">>,
     <<"Ή">>,<<"Ί">>,<<"Υ","U+0308","U+0301">>,<<"Α">>,<<"Β">>,<<"Γ">>,<<"Δ">>,<<"Ε">>,<<"Ζ">>,
     <<"Η">>,<<"Θ">>,<<"Ι">>,<<"Κ">>,<<"Λ">>,<<"Μ">>,<<"Ν">>,<<"Ξ">>,<<"Ο">>,<<"Π">>,<<"Ρ">>,
     <<"Σ">>,<<"Σ">>,<<"Τ">>,<<"Υ">>,<<"Φ">>,<<"Χ">>,<<"Ψ">>,<<"Ω">>,<<"Ϊ">>,<<"Ϋ">>,<<"Ό">>,
     <<"Ύ">>,<<"Ώ">>,<<"Β">>,<<"Θ">>,<<"Φ">>,<<"Π">>,<<"Ϗ">>,<<"Ϙ">>,<<"Ϛ">>,<<"Ϝ">>,<<"Ϟ">>,
     <<"Ϡ">>,<<"Ϣ">>,<<"Ϥ">>,<<"Ϧ">>,<<"Ϩ">>,<<"Ϫ">>,<<"Ϭ">>,<<"Ϯ">>,<<"Κ">>,<<"Ρ">>,<<"Ϲ">>,
     <<"U+037F">>,<<"Ε">>,<<"Ϸ">>,<<"Ϻ">>,<<"U+0410">>,<<"U+0411">>,<<"U+0412">>,<<"U+0413">>,
     <<"U+0414">>,<<"U+0415">>,<<"U+0416">>,<<"U+0417">>,<<"U+0418">>,<<"U+0419">>,<<"U+041A">>,
     <<"U+041B">>,<<"U+041C">>,<<"U+041D">>,<<"U+041E">>,<<"U+041F">>,<<"U+0420">>,<<"U+0421">>,
     <<"U+0422">>,<<"U+0423">>,<<"U+0424">>,<<"U+0425">>,<<"U+0426">>,<<"U+0427">>,<<"U+0428">>,
     <<"U+0429">>,<<"U+042A">>,<<"U+042B">>,<<"U+042C">>,<<"U+042D">>,<<"U+042E">>,<<"U+042F">>,
     <<"U+0400">>,<<"U+0401">>,<<"U+0402">>,<<"U+0403">>,<<"U+0404">>,<<"U+0405">>,<<"U+0406">>,
     <<"U+0407">>,<<"U+0408">>,<<"U+0409">>,<<"U+040A">>,<<"U+040B">>,<<"U+040C">>,<<"U+040D">>,
     <<"U+040E">>,<<"U+040F">>,<<"U+0460">>,<<"U+0462">>,<<"U+0464">>,<<"U+0466">>,<<"U+0468">>,
     <<"U+046A">>,<<"U+046C">>,<<"U+046E">>,<<"U+0470">>,<<"U+0472">>,<<"U+0474">>,<<"U+0476">>,
     <<"U+0478">>,<<"U+047A">>,<<"U+047C">>,<<"U+047E">>,<<"Ҁ">>,<<"Ҋ">>,<<"Ҍ">>,<<"Ҏ">>,<<"Ґ">>,
     <<"Ғ">>,<<"Ҕ">>,<<"Җ">>,<<"Ҙ">>,<<"Қ">>,<<"Ҝ">>,<<"Ҟ">>,<<"Ҡ">>,<<"Ң">>,<<"Ҥ">>,<<"Ҧ">>,
     <<"Ҩ">>,<<"Ҫ">>,<<"Ҭ">>,<<"Ү">>,<<"Ұ">>,<<"Ҳ">>,<<"Ҵ">>,<<"Ҷ">>,<<"Ҹ">>,<<"Һ">>,<<"Ҽ">>,
     <<"Ҿ">>,<<"Ӂ">>,<<"Ӄ">>,<<"Ӆ">>,<<"Ӈ">>,<<"Ӊ">>,<<"Ӌ">>,<<"Ӎ">>,<<"Ӏ">>,<<"Ӑ">>,<<"Ӓ">>,
     <<"Ӕ">>,<<"Ӗ">>,<<"Ә">>,<<"Ӛ">>,<<"Ӝ">>,<<"Ӟ">>,<<"Ӡ">>,<<"Ӣ">>,<<"Ӥ">>,<<"Ӧ">>,<<"Ө">>,
     <<"Ӫ">>,<<"Ӭ">>,<<"Ӯ">>,<<"Ӱ">>,<<"Ӳ">>,<<"Ӵ">>,<<"Ӷ">>,<<"Ӹ">>,<<"Ӻ">>,<<"Ӽ">>,<<"Ӿ">>,
     <<"U+0500">>,<<"U+0502">>,<<"U+0504">>,<<"U+0506">>,<<"U+0508">>,<<"U+050A">>,<<"U+050C">>,
     <<"U+050E">>,<<"U+0510">>,<<"U+0512">>,<<"U+0514">>,<<"U+0516">>,<<"U+0518">>,<<"U+051A">>,
     <<"U+051C">>,<<"U+051E">>,<<"U+0520">>,<<"U+0522">>,<<"U+0524">>,<<"U+0526">>,<<"U+0528">>,
     <<"U+052A">>,<<"U+052C">>,<<"U+052E">>,<<"U+0531">>,<<"U+0532">>,<<"U+0533">>,<<"U+0534">>,
     <<"U+0535">>,<<"U+0536">>,<<"U+0537">>,<<"U+0538">>,<<"U+0539">>,<<"U+053A">>,<<"U+053B">>,
     <<"U+053C">>,<<"U+053D">>,<<"U+053E">>,<<"U+053F">>,<<"U+0540">>,<<"U+0541">>,<<"U+0542">>,
     <<"U+0543">>,<<"U+0544">>,<<"U+0545">>,<<"U+0546">>,<<"U+0547">>,<<"U+0548">>,<<"U+0549">>,
     <<"U+054A">>,<<"U+054B">>,<<"U+054C">>,<<"U+054D">>,<<"U+054E">>,<<"U+054F">>,<<"U+0550">>,
     <<"U+0551">>,<<"U+0552">>,<<"U+0553">>,<<"U+0554">>,<<"U+0555">>,<<"U+0556">>,
     <<"U+0535","U+0552">>,<<"Ა">>,<<"Ბ">>,<<"Გ">>,<<"Დ">>,<<"Ე">>,<<"Ვ">>,<<"Ზ">>,<<"Თ">>,<<"Ი">>,
     <<"Კ">>,<<"Ლ">>,<<"Მ">>,<<"Ნ">>,<<"Ო">>,<<"Პ">>,<<"Ჟ">>,<<"Რ">>,<<"Ს">>,<<"Ტ">>,<<"Უ">>,
     <<"Ფ">>,<<"Ქ">>,<<"Ღ">>,<<"Ყ">>,<<"Შ">>,<<"Ჩ">>,<<"Ც">>,<<"Ძ">>,<<"Წ">>,<<"Ჭ">>,<<"Ხ">>,
     <<"Ჯ">>,<<"Ჰ">>,<<"Ჱ">>,<<"Ჲ">>,<<"Ჳ">>,<<"Ჴ">>,<<"Ჵ">>,<<"Ჶ">>,<<"Ჷ">>,<<"Ჸ">>,<<"Ჹ">>,
     <<"Ჺ">>,<<"Ჽ">>,<<"Ჾ">>,<<"Ჿ">>,<<"Ᏸ">>,<<"Ᏹ">>,<<"Ᏺ">>,<<"Ᏻ">>,<<"Ᏼ">>,<<"Ᏽ">>,<<"U+0412">>,
     <<"U+0414">>,<<"U+041E">>,<<"U+0421">>,<<"U+0422">>,<<"U+0422">>,<<"U+042A">>,<<"U+0462">>,
     <<"U+A64A">>,<<"Ᲊ">>,<<"U+A77D">>,<<"U+2C63">>,<<"Ᶎ">>,<<"U+1E00">>,<<"U+1E02">>,<<"U+1E04">>,
     <<"U+1E06">>,<<"U+1E08">>,<<"U+1E0A">>,<<"U+1E0C">>,<<"U+1E0E">>,<<"U+1E10">>,<<"U+1E12">>,
     <<"U+1E14">>,<<"U+1E16">>,<<"U+1E18">>,<<"U+1E1A">>,<<"U+1E1C">>,<<"U+1E1E">>,<<"U+1E20">>,
     <<"U+1E22">>,<<"U+1E24">>,<<"U+1E26">>,<<"U+1E28">>,<<"U+1E2A">>,<<"U+1E2C">>,<<"U+1E2E">>,
     <<"U+1E30">>,<<"U+1E32">>,<<"U+1E34">>,<<"U+1E36">>,<<"U+1E38">>,<<"U+1E3A">>,<<"U+1E3C">>,
     <<"U+1E3E">>,<<"U+1E40">>,<<"U+1E42">>,<<"U+1E44">>,<<"U+1E46">>,<<"U+1E48">>,<<"U+1E4A">>,
     <<"U+1E4C">>,<<"U+1E4E">>,<<"U+1E50">>,<<"U+1E52">>,<<"U+1E54">>,<<"U+1E56">>,<<"U+1E58">>,
     <<"U+1E5A">>,<<"U+1E5C">>,<<"U+1E5E">>,<<"U+1E60">>,<<"U+1E62">>,<<"U+1E64">>,<<"U+1E66">>,
     <<"U+1E68">>,<<"U+1E6A">>,<<"U+1E6C">>,<<"U+1E6E">>,<<"U+1E70">>,<<"U+1E72">>,<<"U+1E74">>,
     <<"U+1E76">>,<<"U+1E78">>,<<"U+1E7A">>,<<"U+1E7C">>,<<"U+1E7E">>,<<"Ẁ">>,<<"Ẃ">>,<<"Ẅ">>,
     <<"Ẇ">>,<<"Ẉ">>,<<"Ẋ">>,<<"Ẍ">>,<<"Ẏ">>,<<"Ẑ">>,<<"Ẓ">>,<<"Ẕ">>,<<"H","U+0331">>,
     <<"T","U+0308">>,<<"W","U+030A">>,<<"Y","U+030A">>,<<"A","ʾ">>,<<"U+1E60">>,<<"Ạ">>,<<"Ả">>,
     <<"Ấ">>,<<"Ầ">>,<<"Ẩ">>,<<"Ẫ">>,<<"Ậ">>,<<"Ắ">>,<<"Ằ">>,<<"Ẳ">>,<<"Ẵ">>,<<"Ặ">>,<<"Ẹ">>,
     <<"Ẻ">>,<<"Ẽ">>,<<"Ế">>,<<"Ề">>,<<"Ể">>,<<"Ễ">>,<<"Ệ">>,<<"Ỉ">>,<<"Ị">>,<<"Ọ">>,<<"Ỏ">>,
     <<"Ố">>,<<"Ồ">>,<<"Ổ">>,<<"Ỗ">>,<<"Ộ">>,<<"Ớ">>,<<"Ờ">>,<<"Ở">>,<<"Ỡ">>,<<"Ợ">>,<<"Ụ">>,
     <<"Ủ">>,<<"Ứ">>,<<"Ừ">>,<<"Ử">>,<<"Ữ">>,<<"Ự">>,<<"Ỳ">>,<<"Ỵ">>,<<"Ỷ">>,<<"Ỹ">>,<<"Ỻ">>,
     <<"Ỽ">>,<<"Ỿ">>,<<"U+1F08">>,<<"U+1F09">>,<<"U+1F0A">>,<<"U+1F0B">>,<<"U+1F0C">>,<<"U+1F0D">>,
     <<"U+1F0E">>,<<"U+1F0F">>,<<"U+1F18">>,<<"U+1F19">>,<<"U+1F1A">>,<<"U+1F1B">>,<<"U+1F1C">>,
     <<"U+1F1D">>,<<"U+1F28">>,<<"U+1F29">>,<<"U+1F2A">>,<<"U+1F2B">>,<<"U+1F2C">>,<<"U+1F2D">>,
     <<"U+1F2E">>,<<"U+1F2F">>,<<"U+1F38">>,<<"U+1F39">>,<<"U+1F3A">>,<<"U+1F3B">>,<<"U+1F3C">>,
     <<"U+1F3D">>,<<"U+1F3E">>,<<"U+1F3F">>,<<"U+1F48">>,<<"U+1F49">>,<<"U+1F4A">>,<<"U+1F4B">>,
     <<"U+1F4C">>,<<"U+1F4D">>,<<"Υ","U+0313">>,<<"U+1F59">>,<<"Υ","U+0313","U+0300">>,<<"U+1F5B">>,
     <<"Υ","U+0313","U+0301">>,<<"U+1F5D">>,<<"Υ","U+0313","U+0342">>,<<"U+1F5F">>,<<"U+1F68">>,
     <<"U+1F69">>,<<"U+1F6A">>,<<"U+1F6B">>,<<"U+1F6C">>,<<"U+1F6D">>,<<"U+1F6E">>,<<"U+1F6F">>,
     <<"Ὰ">>,<<"Ά">>,<<"Ὲ">>,<<"Έ">>,<<"Ὴ">>,<<"Ή">>,<<"Ὶ">>,<<"Ί">>,<<"Ὸ">>,<<"Ό">>,<<"Ὺ">>,
     <<"Ύ">>,<<"Ὼ">>,<<"Ώ">>,<<"U+1F08","Ι">>,<<"U+1F09","Ι">>,<<"U+1F0A","Ι">>,<<"U+1F0B","Ι">>,
     <<"U+1F0C","Ι">>,<<"U+1F0D","Ι">>,<<"U+1F0E","Ι">>,<<"U+1F0F","Ι">>,<<"U+1F08","Ι">>,
     <<"U+1F09","Ι">>,<<"U+1F0A","Ι">>,<<"U+1F0B","Ι">>,<<"U+1F0C","Ι">>,<<"U+1F0D","Ι">>,
     <<"U+1F0E","Ι">>,<<"U+1F0F","Ι">>,<<"U+1F28","Ι">>,<<"U+1F29","Ι">>,<<"U+1F2A","Ι">>,
     <<"U+1F2B","Ι">>,<<"U+1F2C","Ι">>,<<"U+1F2D","Ι">>,<<"U+1F2E","Ι">>,<<"U+1F2F","Ι">>,
     <<"U+1F28","Ι">>,<<"U+1F29","Ι">>,<<"U+1F2A","Ι">>,<<"U+1F2B","Ι">>,<<"U+1F2C","Ι">>,
     <<"U+1F2D","Ι">>,<<"U+1F2E","Ι">>,<<"U+1F2F","Ι">>,<<"U+1F68","Ι">>,<<"U+1F69","Ι">>,
     <<"U+1F6A","Ι">>,<<"U+1F6B","Ι">>,<<"U+1F6C","Ι">>,<<"U+1F6D","Ι">>,<<"U+1F6E","Ι">>,
     <<"U+1F6F","Ι">>,<<"U+1F68","Ι">>,<<"U+1F69","Ι">>,<<"U+1F6A","Ι">>,<<"U+1F6B","Ι">>,
     <<"U+1F6C","Ι">>,<<"U+1F6D","Ι">>,<<"U+1F6E","Ι">>,<<"U+1F6F","Ι">>,<<"Ᾰ">>,<<"Ᾱ">>,
     <<"Ὰ","Ι">>,<<"Α","Ι">>,<<"Ά","Ι">>,<<"Α","U+0342">>,<<"Α","U+0342","Ι">>,<<"Α","Ι">>,<<"Ι">>,
     <<"Ὴ","Ι">>,<<"Η","Ι">>,<<"Ή","Ι">>,<<"Η","U+0342">>,<<"Η","U+0342","Ι">>,<<"Η","Ι">>,<<"Ῐ">>,
     <<"Ῑ">>,<<"Ι","U+0308","U+0300">>,<<"Ι","U+0308","U+0301">>,<<"Ι","U+0342">>,
     <<"Ι","U+0308","U+0342">>,<<"Ῠ">>,<<"Ῡ">>,<<"Υ","U+0308","U+0300">>,<<"Υ","U+0308","U+0301">>,
     <<"Ρ","U+0313">>,<<"Ῥ">>,<<"Υ","U+0342">>,<<"Υ","U+0308","U+0342">>,<<"Ὼ","Ι">>,<<"Ω","Ι">>,
     <<"Ώ","Ι">>,<<"Ω","U+0342">>,<<"Ω","U+0342","Ι">>,<<"Ω","Ι">>,<<"U+2132">>,<<"U+2160">>,
     <<"U+2161">>,<<"U+2162">>,<<"U+2163">>,<<"U+2164">>,<<"U+2165">>,<<"U+2166">>,<<"U+2167">>,
     <<"U+2168">>,<<"U+2169">>,<<"U+216A">>,<<"U+216B">>,<<"U+216C">>,<<"U+216D">>,<<"U+216E">>,
     <<"U+216F">>,<<"Ↄ">>,<<"Ⓐ">>,<<"Ⓑ">>,<<"Ⓒ">>,<<"Ⓓ">>,<<"Ⓔ">>,<<"Ⓕ">>,<<"Ⓖ">>,<<"Ⓗ">>,<<"Ⓘ">>,
     <<"Ⓙ">>,<<"Ⓚ">>,<<"Ⓛ">>,<<"Ⓜ">>,<<"Ⓝ">>,<<"Ⓞ">>,<<"Ⓟ">>,<<"Ⓠ">>,<<"Ⓡ">>,<<"Ⓢ">>,<<"Ⓣ">>,
     <<"Ⓤ">>,<<"Ⓥ">>,<<"Ⓦ">>,<<"Ⓧ">>,<<"Ⓨ">>,<<"Ⓩ">>,<<"U+2C00">>,<<"U+2C01">>,<<"U+2C02">>,
     <<"U+2C03">>,<<"U+2C04">>,<<"U+2C05">>,<<"U+2C06">>,<<"U+2C07">>,<<"U+2C08">>,<<"U+2C09">>,
     <<"U+2C0A">>,<<"U+2C0B">>,<<"U+2C0C">>,<<"U+2C0D">>,<<"U+2C0E">>,<<"U+2C0F">>,<<"U+2C10">>,
     <<"U+2C11">>,<<"U+2C12">>,<<"U+2C13">>,<<"U+2C14">>,<<"U+2C15">>,<<"U+2C16">>,<<"U+2C17">>,
     <<"U+2C18">>,<<"U+2C19">>,<<"U+2C1A">>,<<"U+2C1B">>,<<"U+2C1C">>,<<"U+2C1D">>,<<"U+2C1E">>,
     <<"U+2C1F">>,<<"U+2C20">>,<<"U+2C21">>,<<"U+2C22">>,<<"U+2C23">>,<<"U+2C24">>,<<"U+2C25">>,
     <<"U+2C26">>,<<"U+2C27">>,<<"U+2C28">>,<<"U+2C29">>,<<"U+2C2A">>,<<"U+2C2B">>,<<"U+2C2C">>,
     <<"U+2C2D">>,<<"U+2C2E">>,<<"U+2C2F">>,<<"U+2C60">>,<<"U+023A">>,<<"U+023E">>,<<"U+2C67">>,
     <<"U+2C69">>,<<"U+2C6B">>,<<"U+2C72">>,<<"U+2C75">>,<<"Ⲁ">>,<<"Ⲃ">>,<<"Ⲅ">>,<<"Ⲇ">>,<<"Ⲉ">>,
     <<"Ⲋ">>,<<"Ⲍ">>,<<"Ⲏ">>,<<"Ⲑ">>,<<"Ⲓ">>,<<"Ⲕ">>,<<"Ⲗ">>,<<"Ⲙ">>,<<"Ⲛ">>,<<"Ⲝ">>,<<"Ⲟ">>,
     <<"Ⲡ">>,<<"Ⲣ">>,<<"Ⲥ">>,<<"Ⲧ">>,<<"Ⲩ">>,<<"Ⲫ">>,<<"Ⲭ">>,<<"Ⲯ">>,<<"Ⲱ">>,<<"Ⲳ">>,<<"Ⲵ">>,
     <<"Ⲷ">>,<<"Ⲹ">>,<<"Ⲻ">>,<<"Ⲽ">>,<<"Ⲿ">>,<<"Ⳁ">>,<<"Ⳃ">>,<<"Ⳅ">>,<<"Ⳇ">>,<<"Ⳉ">>,<<"Ⳋ">>,
     <<"Ⳍ">>,<<"Ⳏ">>,<<"Ⳑ">>,<<"Ⳓ">>,<<"Ⳕ">>,<<"Ⳗ">>,<<"Ⳙ">>,<<"Ⳛ">>,<<"Ⳝ">>,<<"Ⳟ">>,<<"Ⳡ">>,
     <<"Ⳣ">>,<<"Ⳬ">>,<<"Ⳮ">>,<<"Ⳳ">>,<<"Ⴀ">>,<<"Ⴁ">>,<<"Ⴂ">>,<<"Ⴃ">>,<<"Ⴄ">>,<<"Ⴅ">>,<<"Ⴆ">>,
     <<"Ⴇ">>,<<"Ⴈ">>,<<"Ⴉ">>,<<"Ⴊ">>,<<"Ⴋ">>,<<"Ⴌ">>,<<"Ⴍ">>,<<"Ⴎ">>,<<"Ⴏ">>,<<"Ⴐ">>,<<"Ⴑ">>,
     <<"Ⴒ">>,<<"Ⴓ">>,<<"Ⴔ">>,<<"Ⴕ">>,<<"Ⴖ">>,<<"Ⴗ">>,<<"Ⴘ">>,<<"Ⴙ">>,<<"Ⴚ">>,<<"Ⴛ">>,<<"Ⴜ">>,
     <<"Ⴝ">>,<<"Ⴞ">>,<<"Ⴟ">>,<<"Ⴠ">>,<<"Ⴡ">>,<<"Ⴢ">>,<<"Ⴣ">>,<<"Ⴤ">>,<<"Ⴥ">>,<<"Ⴧ">>,<<"Ⴭ">>,
     <<"U+A640">>,<<"U+A642">>,<<"U+A644">>,<<"U+A646">>,<<"U+A648">>,<<"U+A64A">>,<<"U+A64C">>,
     <<"U+A64E">>,<<"U+A650">>,<<"U+A652">>,<<"U+A654">>,<<"U+A656">>,<<"U+A658">>,<<"U+A65A">>,
     <<"U+A65C">>,<<"U+A65E">>,<<"U+A660">>,<<"U+A662">>,<<"U+A664">>,<<"U+A666">>,<<"U+A668">>,
     <<"U+A66A">>,<<"U+A66C">>,<<"Ꚁ">>,<<"Ꚃ">>,<<"Ꚅ">>,<<"Ꚇ">>,<<"Ꚉ">>,<<"Ꚋ">>,<<"Ꚍ">>,<<"Ꚏ">>,
     <<"Ꚑ">>,<<"Ꚓ">>,<<"Ꚕ">>,<<"Ꚗ">>,<<"Ꚙ">>,<<"Ꚛ">>,<<"U+A722">>,<<"U+A724">>,<<"U+A726">>,
     <<"U+A728">>,<<"U+A72A">>,<<"U+A72C">>,<<"U+A72E">>,<<"U+A732">>,<<"U+A734">>,<<"U+A736">>,
     <<"U+A738">>,<<"U+A73A">>,<<"U+A73C">>,<<"U+A73E">>,<<"U+A740">>,<<"U+A742">>,<<"U+A744">>,
     <<"U+A746">>,<<"U+A748">>,<<"U+A74A">>,<<"U+A74C">>,<<"U+A74E">>,<<"U+A750">>,<<"U+A752">>,
     <<"U+A754">>,<<"U+A756">>,<<"U+A758">>,<<"U+A75A">>,<<"U+A75C">>,<<"U+A75E">>,<<"U+A760">>,
     <<"U+A762">>,<<"U+A764">>,<<"U+A766">>,<<"U+A768">>,<<"U+A76A">>,<<"U+A76C">>,<<"U+A76E">>,
     <<"U+A779">>,<<"U+A77B">>,<<"U+A77E">>,<<"Ꞁ">>,<<"Ꞃ">>,<<"Ꞅ">>,<<"Ꞇ">>,<<"Ꞌ">>,<<"Ꞑ">>,<<"Ꞓ">>,
     <<"Ꞔ">>,<<"Ꞗ">>,<<"Ꞙ">>,<<"Ꞛ">>,<<"Ꞝ">>,<<"Ꞟ">>,<<"Ꞡ">>,<<"Ꞣ">>,<<"Ꞥ">>,<<"Ꞧ">>,<<"Ꞩ">>,
     <<"Ꞵ">>,<<"Ꞷ">>,<<"Ꞹ">>,<<"Ꞻ">>,<<"Ꞽ">>,<<"Ꞿ">>,<<"Ꟁ">>,<<"Ꟃ">>,<<"Ꟈ">>,<<"Ꟊ">>,<<"Ꟍ">>,
     <<"꟎">>,<<"Ꟑ">>,<<"꟒">>,<<"꟔">>,<<"Ꟗ">>,<<"Ꟙ">>,<<"Ꟛ">>,<<"Ꟶ">>,<<"Ꭓ">>,<<"Ꭰ">>,<<"Ꭱ">>,
     <<"Ꭲ">>,<<"Ꭳ">>,<<"Ꭴ">>,<<"Ꭵ">>,<<"Ꭶ">>,<<"Ꭷ">>,<<"Ꭸ">>,<<"Ꭹ">>,<<"Ꭺ">>,<<"Ꭻ">>,<<"Ꭼ">>,
     <<"Ꭽ">>,<<"Ꭾ">>,<<"Ꭿ">>,<<"Ꮀ">>,<<"Ꮁ">>,<<"Ꮂ">>,<<"Ꮃ">>,<<"Ꮄ">>,<<"Ꮅ">>,<<"Ꮆ">>,<<"Ꮇ">>,
     <<"Ꮈ">>,<<"Ꮉ">>,<<"Ꮊ">>,<<"Ꮋ">>,<<"Ꮌ">>,<<"Ꮍ">>,<<"Ꮎ">>,<<"Ꮏ">>,<<"Ꮐ">>,<<"Ꮑ">>,<<"Ꮒ">>,
     <<"Ꮓ">>,<<"Ꮔ">>,<<"Ꮕ">>,<<"Ꮖ">>,<<"Ꮗ">>,<<"Ꮘ">>,<<"Ꮙ">>,<<"Ꮚ">>,<<"Ꮛ">>,<<"Ꮜ">>,<<"Ꮝ">>,
     <<"Ꮞ">>,<<"Ꮟ">>,<<"Ꮠ">>,<<"Ꮡ">>,<<"Ꮢ">>,<<"Ꮣ">>,<<"Ꮤ">>,<<"Ꮥ">>,<<"Ꮦ">>,<<"Ꮧ">>,<<"Ꮨ">>,
     <<"Ꮩ">>,<<"Ꮪ">>,<<"Ꮫ">>,<<"Ꮬ">>,<<"Ꮭ">>,<<"Ꮮ">>,<<"Ꮯ">>,<<"Ꮰ">>,<<"Ꮱ">>,<<"Ꮲ">>,<<"Ꮳ">>,
     <<"Ꮴ">>,<<"Ꮵ">>,<<"Ꮶ">>,<<"Ꮷ">>,<<"Ꮸ">>,<<"Ꮹ">>,<<"Ꮺ">>,<<"Ꮻ">>,<<"Ꮼ">>,<<"Ꮽ">>,<<"Ꮾ">>,
     <<"Ꮿ">>,<<"F","F">>,<<"F","I">>,<<"F","L">>,<<"F","F","I">>,<<"F","F","L">>,<<"S","T">>,
     <<"S","T">>,<<"U+0544","U+0546">>,<<"U+0544","U+0535">>,<<"U+0544","U+053B">>,
     <<"U+054E","U+0546">>,<<"U+0544","U+053D">>,<<"U+FF21">>,<<"U+FF22">>,<<"U+FF23">>,
     <<"U+FF24">>,<<"U+FF25">>,<<"U+FF26">>,<<"U+FF27">>,<<"U+FF28">>,<<"U+FF29">>,<<"U+FF2A">>,
     <<"U+FF2B">>,<<"U+FF2C">>,<<"U+FF2D">>,<<"U+FF2E">>,<<"U+FF2F">>,<<"U+FF30">>,<<"U+FF31">>,
     <<"U+FF32">>,<<"U+FF33">>,<<"U+FF34">>,<<"U+FF35">>,<<"U+FF36">>,<<"U+FF37">>,<<"U+FF38">>,
     <<"U+FF39">>,<<"U+FF3A">>>>

\* the same for the characters written as a pair of surrogates: a run
\* <<high, first, last, high of the result, move>> stands for the characters
\* of that high surrogate whose low surrogates are the first-th to the last-th,
\* and gives each the low surrogate that many places further
LowerPairRuns == 
    <<<<"U+D801",1,40,"U+D801",40>>,<<"U+D801",177,212,"U+D801",40>>,
     <<"U+D801",369,379,"U+D801",39>>,<<"U+D801",381,395,"U+D801",39>>,
     <<"U+D801",397,403,"U+D801",39>>,<<"U+D801",405,406,"U+D801",39>>,
     <<"U+D803",129,179,"U+D803",64>>,<<"U+D803",337,358,"U+D803",32>>,
     <<"U+D806",161,192,"U+D806",32>>,<<"U+D81B",577,608,"U+D81B",32>>,
     <<"U+D81B",673,697,"U+D81B",27>>,<<"U+D83A",257,290,"U+D83A",34>>>>

UpperPairRuns == 
    <<<<"U+D801",41,80,"U+D801",-40>>,<<"U+D801",217,252,"U+D801",-40>>,
     <<"U+D801",408,418,"U+D801",-39>>,<<"U+D801",420,434,"U+D801",-39>>,
     <<"U+D801",436,442,"U+D801",-39>>,<<"U+D801",444,445,"U+D801",-39>>,
     <<"U+D803",193,243,"U+D803",-64>>,<<"U+D803",369,390,"U+D803",-32>>,
     <<"U+D806",193,224,"U+D806",-32>>,<<"U+D81B",609,640,"U+D81B",-32>>,
     <<"U+D81B",700,724,"U+D81B",-27>>,<<"U+D83A",291,324,"U+D83A",-34>>>>

\* the cased letters that are not case-ignorable
CasedLetters == 
    {"A","B","C","D","E","F","G","H","I","J","K","L","M","N","O","P","Q","R","S","T","U","V","W",
     "X","Y","Z","a","b","c","d","e","f","g","h","i","j","k","l","m","n","o","p","q","r","s","t",
     "u","v","w","x","y","z","ª","µ","º","À","Á","Â","Ã","Ä","Å","Æ","Ç","È","É","Ê","Ë","Ì","Í",
     "Î","Ï","Ð","Ñ","Ò","Ó","Ô","Õ","Ö","Ø","Ù","Ú","Û","Ü","Ý","Þ","ß","à","á","â","ã","ä","å",
     "æ","ç","è","é","ê","ë","ì","í","î","ï","ð","ñ","ò","ó","ô","õ","ö","ø","ù","ú","û","ü","ý",
     "þ","ÿ","U+0100","U+0101","U+0102","U+0103","U+0104","U+0105","U+0106","U+0107","U+0108",
     "U+0109","U+010A","U+010B","U+010C","U+010D","U+010E","U+010F","U+0110","U+0111","U+0112",
     "U+0113","U+0114","U+0115","U+0116","U+0117","U+0118","U+0119","U+011A","U+011B","U+011C",
     "U+011D","U+011E","U+011F","U+0120","U+0121","U+0122","U+0123","U+0124","U+0125","U+0126",
     "U+0127","U+0128","U+0129","U+012A","U+012B","U+012C","U+012D","U+012E","U+012F","U+0130",
     "U+0131","U+0132","U+0133","U+0134","U+0135","U+0136","U+0137","U+0138","U+0139","U+013A",
     "U+013B","U+013C","U+013D","U+013E","U+013F","U+0140","U+0141","U+0142","U+0143","U+0144",
     "U+0145","U+0146","U+0147","U+0148","U+0149","U+014A","U+014B","U+014C","U+014D","U+014E",
     "U+014F","U+0150","U+0151","U+0152","U+0153","U+0154","U+0155","U+0156","U+0157","U+0158",
     "U+0159","U+015A","U+015B","U+015C","U+015D","U+015E","U+015F","U+0160","U+0161","U+0162",
     "U+0163","U+0164","U+0165","U+0166","U+0167","U+0168","U+0169","U+016A","U+016B","U+016C",
     "U+016D","U+016E","U+016F","U+0170","U+0171","U+0172","U+0173","U+0174","U+0175","U+0176",
     "U+0177","U+0178","U+0179","U+017A","U+017B","U+017C","U+017D","U+017E","U+017F","ƀ","Ɓ","Ƃ",
     "ƃ","Ƅ","ƅ","Ɔ","Ƈ","ƈ","Ɖ","Ɗ","Ƌ","ƌ","ƍ","Ǝ","Ə","Ɛ","Ƒ","ƒ","Ɠ","Ɣ","ƕ","Ɩ","Ɨ","Ƙ","ƙ",
     "ƚ","ƛ","Ɯ","Ɲ","ƞ","Ɵ","Ơ","ơ","Ƣ","ƣ","Ƥ","ƥ","Ʀ","Ƨ","ƨ","Ʃ","ƪ","ƫ","Ƭ","ƭ","Ʈ","Ư","ư",
     "Ʊ","Ʋ","Ƴ","ƴ","Ƶ","ƶ","Ʒ","Ƹ","ƹ","ƺ","Ƽ","ƽ","ƾ","ƿ","Ǆ","ǅ","ǆ","Ǉ","ǈ","ǉ","Ǌ","ǋ","ǌ",
     "Ǎ","ǎ","Ǐ","ǐ","Ǒ","ǒ","Ǔ","ǔ","Ǖ","ǖ","Ǘ","ǘ","Ǚ","ǚ","Ǜ","ǜ","ǝ","Ǟ","ǟ","Ǡ","ǡ","Ǣ","ǣ",
     "Ǥ","ǥ","Ǧ","ǧ","Ǩ","ǩ","Ǫ","ǫ","Ǭ","ǭ","Ǯ","ǯ","ǰ","Ǳ","ǲ","ǳ","Ǵ","ǵ","Ƕ","Ƿ","Ǹ","ǹ","Ǻ",
     "ǻ","Ǽ","ǽ","Ǿ","ǿ","U+0200","U+0201","U+0202","U+0203","U+0204","U+0205","U+0206","U+0207",
     "U+0208","U+0209","U+020A","U+020B","U+020C","U+020D","U+020E","U+020F","U+0210","U+0211",
     "U+0212","U+0213","U+0214","U+0215","U+0216","U+0217","U+0218","U+0219","U+021A","U+021B",
     "U+021C","U+021D","U+021E","U+021F","U+0220","U+0221","U+0222","U+0223","U+0224","U+0225",
     "U+0226","U+0227","U+0228","U+0229","U+022A","U+022B","U+022C","U+022D","U+022E","U+022F",
     "U+0230","U+0231","U+0232","U+0233","U+0234","U+0235","U+0236","U+0237","U+0238","U+0239",
     "U+023A","U+023B","U+023C","U+023D","U+023E","U+023F","U+0240","U+0241","U+0242","U+0243",
     "U+0244","U+0245","U+0246","U+0247","U+0248","U+0249","U+024A","U+024B","U+024C","U+024D",
     "U+024E","U+024F","U+0250","U+0251","U+0252","U+0253","U+0254","U+0255","U+0256","U+0257",
     "U+0258","U+0259","U+025A","U+025B","U+025C","U+025D","U+025E","U+025F","U+0260","U+0261",
     "U+0262","U+0263","U+0264","U+0265","U+0266","U+0267","U+0268","U+0269","U+026A","U+026B",
     "U+026C","U+026D","U+026E","U+026F","U+0270","U+0271","U+0272","U+0273","U+0274","U+0275",
     "U+0276","U+0277","U+0278","U+0279","U+027A","U+027B","U+027C","U+027D","U+027E","U+027F","ʀ",
     "ʁ","ʂ","ʃ","ʄ","ʅ","ʆ","ʇ","ʈ","ʉ","ʊ","ʋ","ʌ","ʍ","ʎ","ʏ","ʐ","ʑ","ʒ","ʓ","ʖ","ʗ","ʘ","ʙ",
     "ʚ","ʛ","ʜ","ʝ","ʞ","ʟ","ʠ","ʡ","ʢ","ʣ","ʤ","ʥ","ʦ","ʧ","ʨ","ʩ","ʪ","ʫ","ʬ","ʭ","ʮ","ʯ",
     "U+0370","U+0371","U+0372","U+0373","U+0376","U+0377","U+037B","U+037C","U+037D","U+037F","Ά",
     "Έ","Ή","Ί","Ό","Ύ","Ώ","ΐ","Α","Β","Γ","Δ","Ε","Ζ","Η","Θ","Ι","Κ","Λ","Μ","Ν","Ξ","Ο","Π",
     "Ρ","Σ","Τ","Υ","Φ","Χ","Ψ","Ω","Ϊ","Ϋ","ά","έ","ή","ί","ΰ","α","β","γ","δ","ε","ζ","η","θ",
     "ι","κ","λ","μ","ν","ξ","ο","π","ρ","ς","σ","τ","υ","φ","χ","ψ","ω","ϊ","ϋ","ό","ύ","ώ","Ϗ",
     "ϐ","ϑ","ϒ","ϓ","ϔ","ϕ","ϖ","ϗ","Ϙ","ϙ","Ϛ","ϛ","Ϝ","ϝ","Ϟ","ϟ","Ϡ","ϡ","Ϣ","ϣ","Ϥ","ϥ","Ϧ",
     "ϧ","Ϩ","ϩ","Ϫ","ϫ","Ϭ","ϭ","Ϯ","ϯ","ϰ","ϱ","ϲ","ϳ","ϴ","ϵ","Ϸ","ϸ","Ϲ","Ϻ","ϻ","ϼ","Ͻ","Ͼ",
     "Ͽ","U+0400","U+0401","U+0402","U+0403","U+0404","U+0405","U+0406","U+0407","U+0408","U+0409",
     "U+040A","U+040B","U+040C","U+040D","U+040E","U+040F","U+0410","U+0411","U+0412","U+0413",
     "U+0414","U+0415","U+0416","U+0417","U+0418","U+0419","U+041A","U+041B","U+041C","U+041D",
     "U+041E","U+041F","U+0420","U+0421","U+0422","U+0423","U+0424","U+0425","U+0426","U+0427",
     "U+0428","U+0429","U+042A","U+042B","U+042C","U+042D","U+042E","U+042F","U+0430","U+0431",
     "U+0432","U+0433","U+0434","U+0435","U+0436","U+0437","U+0438","U+0439","U+043A","U+043B",
     "U+043C","U+043D","U+043E","U+043F","U+0440","U+0441","U+0442","U+0443","U+0444","U+0445",
     "U+0446","U+0447","U+0448","U+0449","U+044A","U+044B","U+044C","U+044D","U+044E","U+044F",
     "U+0450","U+0451","U+0452","U+0453","U+0454","U+0455","U+0456","U+0457","U+0458","U+0459",
     "U+045A","U+045B","U+045C","U+045D","U+045E","U+045F","U+0460","U+0461","U+0462","U+0463",
     "U+0464","U+0465","U+0466","U+0467","U+0468","U+0469","U+046A","U+046B","U+046C","U+046D",
     "U+046E","U+046F","U+0470","U+0471","U+0472","U+0473","U+0474","U+0475","U+0476","U+0477",
     "U+0478","U+0479","U+047A","U+047B","U+047C","U+047D","U+047E","U+047F","Ҁ","ҁ","Ҋ","ҋ","Ҍ",
     "ҍ","Ҏ","ҏ","Ґ","ґ","Ғ","ғ","Ҕ","ҕ","Җ","җ","Ҙ","ҙ","Қ","қ","Ҝ","ҝ","Ҟ","ҟ","Ҡ","ҡ","Ң","ң",
     "Ҥ","ҥ","Ҧ","ҧ","Ҩ","ҩ","Ҫ","ҫ","Ҭ","ҭ","Ү","ү","Ұ","ұ","Ҳ","ҳ","Ҵ","ҵ","Ҷ","ҷ","Ҹ","ҹ","Һ",
     "һ","Ҽ","ҽ","Ҿ","ҿ","Ӏ","Ӂ","ӂ","Ӄ","ӄ","Ӆ","ӆ","Ӈ","ӈ","Ӊ","ӊ","Ӌ","ӌ","Ӎ","ӎ","ӏ","Ӑ","ӑ",
     "Ӓ","ӓ","Ӕ","ӕ","Ӗ","ӗ","Ә","ә","Ӛ","ӛ","Ӝ","ӝ","Ӟ","ӟ","Ӡ","ӡ","Ӣ","ӣ","Ӥ","ӥ","Ӧ","ӧ","Ө",
     "ө","Ӫ","ӫ","Ӭ","ӭ","Ӯ","ӯ","Ӱ","ӱ","Ӳ","ӳ","Ӵ","ӵ","Ӷ","ӷ","Ӹ","ӹ","Ӻ","ӻ","Ӽ","ӽ","Ӿ","ӿ",
     "U+0500","U+0501","U+0502","U+0503","U+0504","U+0505","U+0506","U+0507","U+0508","U+0509",
     "U+050A","U+050B","U+050C","U+050D","U+050E","U+050F","U+0510","U+0511","U+0512","U+0513",
     "U+0514","U+0515","U+0516","U+0517","U+0518","U+0519","U+051A","U+051B","U+051C","U+051D",
     "U+051E","U+051F","U+0520","U+0521","U+0522","U+0523","U+0524","U+0525","U+0526","U+0527",
     "U+0528","U+0529","U+052A","U+052B","U+052C","U+052D","U+052E","U+052F","U+0531","U+0532",
     "U+0533","U+0534","U+0535","U+0536","U+0537","U+0538","U+0539","U+053A","U+053B","U+053C",
     "U+053D","U+053E","U+053F","U+0540","U+0541","U+0542","U+0543","U+0544","U+0545","U+0546",
     "U+0547","U+0548","U+0549","U+054A","U+054B","U+054C","U+054D","U+054E","U+054F","U+0550",
     "U+0551","U+0552","U+0553","U+0554","U+0555","U+0556","U+0560","U+0561","U+0562","U+0563",
     "U+0564","U+0565","U+0566","U+0567","U+0568","U+0569","U+056A","U+056B","U+056C","U+056D",
     "U+056E","U+056F","U+0570","U+0571","U+0572","U+0573","U+0574","U+0575","U+0576","U+0577",
     "U+0578","U+0579","U+057A","U+057B","U+057C","U+057D","U+057E","U+057F","ր","ց","ւ","փ","ք",
     "օ","ֆ","և","ֈ","Ⴀ","Ⴁ","Ⴂ","Ⴃ","Ⴄ","Ⴅ","Ⴆ","Ⴇ","Ⴈ","Ⴉ","Ⴊ","Ⴋ","Ⴌ","Ⴍ","Ⴎ","Ⴏ","Ⴐ","Ⴑ","Ⴒ",
     "Ⴓ","Ⴔ","Ⴕ","Ⴖ","Ⴗ","Ⴘ","Ⴙ","Ⴚ","Ⴛ","Ⴜ","Ⴝ","Ⴞ","Ⴟ","Ⴠ","Ⴡ","Ⴢ","Ⴣ","Ⴤ","Ⴥ","Ⴧ","Ⴭ","ა","ბ",
     "გ","დ","ე","ვ","ზ","თ","ი","კ","ლ","მ","ნ","ო","პ","ჟ","რ","ს","ტ","უ","ფ","ქ","ღ","ყ","შ",
     "ჩ","ც","ძ","წ","ჭ","ხ","ჯ","ჰ","ჱ","ჲ","ჳ","ჴ","ჵ","ჶ","ჷ","ჸ","ჹ","ჺ","ჽ","ჾ","ჿ","Ꭰ","Ꭱ",
     "Ꭲ","Ꭳ","Ꭴ","Ꭵ","Ꭶ","Ꭷ","Ꭸ","Ꭹ","Ꭺ","Ꭻ","Ꭼ","Ꭽ","Ꭾ","Ꭿ","Ꮀ","Ꮁ","Ꮂ","Ꮃ","Ꮄ","Ꮅ","Ꮆ","Ꮇ","Ꮈ",
     "Ꮉ","Ꮊ","Ꮋ","Ꮌ","Ꮍ","Ꮎ","Ꮏ","Ꮐ","Ꮑ","Ꮒ","Ꮓ","Ꮔ","Ꮕ","Ꮖ","Ꮗ","Ꮘ","Ꮙ","Ꮚ","Ꮛ","Ꮜ","Ꮝ","Ꮞ","Ꮟ",
     "Ꮠ","Ꮡ","Ꮢ","Ꮣ","Ꮤ","Ꮥ","Ꮦ","Ꮧ","Ꮨ","Ꮩ","Ꮪ","Ꮫ","Ꮬ","Ꮭ","Ꮮ","Ꮯ","Ꮰ","Ꮱ","Ꮲ","Ꮳ","Ꮴ","Ꮵ","Ꮶ",
     "Ꮷ","Ꮸ","Ꮹ","Ꮺ","Ꮻ","Ꮼ","Ꮽ","Ꮾ","Ꮿ","Ᏸ","Ᏹ","Ᏺ","Ᏻ","Ᏼ","Ᏽ","ᏸ","ᏹ","ᏺ","ᏻ","ᏼ","ᏽ","ᲀ","ᲁ",
     "ᲂ","ᲃ","ᲄ","ᲅ","ᲆ","ᲇ","ᲈ","Ᲊ","ᲊ","Ა","Ბ","Გ","Დ","Ე","Ვ","Ზ","Თ","Ი","Კ","Ლ","Მ","Ნ","Ო",
     "Პ","Ჟ","Რ","Ს","Ტ","Უ","Ფ","Ქ","Ღ","Ყ","Შ","Ჩ","Ც","Ძ","Წ","Ჭ","Ხ","Ჯ","Ჰ","Ჱ","Ჲ","Ჳ","Ჴ",
     "Ჵ","Ჶ","Ჷ","Ჸ","Ჹ","Ჺ","Ჽ","Ჾ","Ჿ","U+1D00","U+1D01","U+1D02","U+1D03","U+1D04","U+1D05",
     "U+1D06","U+1D07","U+1D08","U+1D09","U+1D0A","U+1D0B","U+1D0C","U+1D0D","U+1D0E","U+1D0F",
     "U+1D10","U+1D11","U+1D12","U+1D13","U+1D14","U+1D15","U+1D16","U+1D17","U+1D18","U+1D19",
     "U+1D1A","U+1D1B","U+1D1C","U+1D1D","U+1D1E","U+1D1F","U+1D20","U+1D21","U+1D22","U+1D23",
     "U+1D24","U+1D25","U+1D26","U+1D27","U+1D28","U+1D29","U+1D2A","U+1D2B","U+1D6B","U+1D6C",
     "U+1D6D","U+1D6E","U+1D6F","U+1D70","U+1D71","U+1D72","U+1D73","U+1D74","U+1D75","U+1D76",
     "U+1D77","U+1D79","U+1D7A","U+1D7B","U+1D7C","U+1D7D","U+1D7E","U+1D7F","ᶀ","ᶁ","ᶂ","ᶃ","ᶄ",
     "ᶅ","ᶆ","ᶇ","ᶈ","ᶉ","ᶊ","ᶋ","ᶌ","ᶍ","ᶎ","ᶏ","ᶐ","ᶑ","ᶒ","ᶓ","ᶔ","ᶕ","ᶖ","ᶗ","ᶘ","ᶙ","ᶚ",
     "U+1E00","U+1E01","U+1E02","U+1E03","U+1E04","U+1E05","U+1E06","U+1E07","U+1E08","U+1E09",
     "U+1E0A","U+1E0B","U+1E0C","U+1E0D","U+1E0E","U+1E0F","U+1E10","U+1E11","U+1E12","U+1E13",
     "U+1E14","U+1E15","U+1E16","U+1E17","U+1E18","U+1E19","U+1E1A","U+1E1B","U+1E1C","U+1E1D",
     "U+1E1E","U+1E1F","U+1E20","U+1E21","U+1E22","U+1E23","U+1E24","U+1E25","U+1E26","U+1E27",
     "U+1E28","U+1E29","U+1E2A","U+1E2B","U+1E2C","U+1E2D","U+1E2E","U+1E2F","U+1E30","U+1E31",
     "U+1E32","U+1E33","U+1E34","U+1E35","U+1E36","U+1E37","U+1E38","U+1E39","U+1E3A","U+1E3B",
     "U+1E3C","U+1E3D","U+1E3E","U+1E3F","U+1E40","U+1E41","U+1E42","U+1E43","U+1E44","U+1E45",
     "U+1E46","U+1E47","U+1E48","U+1E49","U+1E4A","U+1E4B","U+1E4C","U+1E4D","U+1E4E","U+1E4F",
     "U+1E50","U+1E51","U+1E52","U+1E53","U+1E54","U+1E55","U+1E56","U+1E57","U+1E58","U+1E59",
     "U+1E5A","U+1E5B","U+1E5C","U+1E5D","U+1E5E","U+1E5F","U+1E60","U+1E61","U+1E62","U+1E63",
     "U+1E64","U+1E65","U+1E66","U+1E67","U+1E68","U+1E69","U+1E6A","U+1E6B","U+1E6C","U+1E6D",
     "U+1E6E","U+1E6F","U+1E70","U+1E71","U+1E72","U+1E73","U+1E74","U+1E75","U+1E76","U+1E77",
     "U+1E78","U+1E79","U+1E7A","U+1E7B","U+1E7C","U+1E7D","U+1E7E","U+1E7F","Ẁ","ẁ","Ẃ","ẃ","Ẅ",
     "ẅ","Ẇ","ẇ","Ẉ","ẉ","Ẋ","ẋ","Ẍ","ẍ","Ẏ","ẏ","Ẑ","ẑ","Ẓ","ẓ","Ẕ","ẕ","ẖ","ẗ","ẘ","ẙ","ẚ","ẛ",
     "ẜ","ẝ","ẞ","ẟ","Ạ","ạ","Ả","ả","Ấ","ấ","Ầ","ầ","Ẩ","ẩ","Ẫ","ẫ","Ậ","ậ","Ắ","ắ","Ằ","ằ","Ẳ",
     "ẳ","Ẵ","ẵ","Ặ","ặ","Ẹ","ẹ","Ẻ","ẻ","Ẽ","ẽ","Ế","ế","Ề","ề","Ể","ể","Ễ","ễ","Ệ","ệ","Ỉ","ỉ",
     "Ị","ị","Ọ","ọ","Ỏ","ỏ","Ố","ố","Ồ","ồ","Ổ","ổ","Ỗ","ỗ","Ộ","ộ","Ớ","ớ","Ờ","ờ","Ở","ở","Ỡ",
     "ỡ","Ợ","ợ","Ụ","ụ","Ủ","ủ","Ứ","ứ","Ừ","ừ","Ử","ử","Ữ","ữ","Ự","ự","Ỳ","ỳ","Ỵ","ỵ","Ỷ","ỷ",
     "Ỹ","ỹ","Ỻ","ỻ","Ỽ","ỽ","Ỿ","ỿ","U+1F00","U+1F01","U+1F02","U+1F03","U+1F04","U+1F05","U+1F06",
     "U+1F07","U+1F08","U+1F09","U+1F0A","U+1F0B","U+1F0C","U+1F0D","U+1F0E","U+1F0F","U+1F10",
     "U+1F11","U+1F12","U+1F13","U+1F14","U+1F15","U+1F18","U+1F19","U+1F1A","U+1F1B","U+1F1C",
     "U+1F1D","U+1F20","U+1F21","U+1F22","U+1F23","U+1F24","U+1F25","U+1F26","U+1F27","U+1F28",
     "U+1F29","U+1F2A","U+1F2B","U+1F2C","U+1F2D","U+1F2E","U+1F2F","U+1F30","U+1F31","U+1F32",
     "U+1F33","U+1F34","U+1F35","U+1F36","U+1F37","U+1F38","U+1F39","U+1F3A","U+1F3B","U+1F3C",
     "U+1F3D","U+1F3E","U+1F3F","U+1F40","U+1F41","U+1F42","U+1F43","U+1F44","U+1F45","U+1F48",
     "U+1F49","U+1F4A","U+1F4B","U+1F4C","U+1F4D","U+1F50","U+1F51","U+1F52","U+1F53","U+1F54",
     "U+1F55","U+1F56","U+1F57","U+1F59","U+1F5B","U+1F5D","U+1F5F","U+1F60","U+1F61","U+1F62",
     "U+1F63","U+1F64","U+1F65","U+1F66","U+1F67","U+1F68","U+1F69","U+1F6A","U+1F6B","U+1F6C",
     "U+1F6D","U+1F6E","U+1F6F","U+1F70","U+1F71","U+1F72","U+1F73","U+1F74","U+1F75","U+1F76",
     "U+1F77","U+1F78","U+1F79","U+1F7A","U+1F7B","U+1F7C","U+1F7D","ᾀ","ᾁ","ᾂ","ᾃ","ᾄ","ᾅ","ᾆ","ᾇ",
     "ᾈ","ᾉ","ᾊ","ᾋ","ᾌ","ᾍ","ᾎ","ᾏ","ᾐ","ᾑ","ᾒ","ᾓ","ᾔ","ᾕ","ᾖ","ᾗ","ᾘ","ᾙ","ᾚ","ᾛ","ᾜ","ᾝ","ᾞ",
     "ᾟ","ᾠ","ᾡ","ᾢ","ᾣ","ᾤ","ᾥ","ᾦ","ᾧ","ᾨ","ᾩ","ᾪ","ᾫ","ᾬ","ᾭ","ᾮ","ᾯ","ᾰ","ᾱ","ᾲ","ᾳ","ᾴ","ᾶ",
     "ᾷ","Ᾰ","Ᾱ","Ὰ","Ά","ᾼ","ι","ῂ","ῃ","ῄ","ῆ","ῇ","Ὲ","Έ","Ὴ","Ή","ῌ","ῐ","ῑ","ῒ","ΐ","ῖ","ῗ",
     "Ῐ","Ῑ","Ὶ","Ί","ῠ","ῡ","ῢ","ΰ","ῤ","ῥ","ῦ","ῧ","Ῠ","Ῡ","Ὺ","Ύ","Ῥ","ῲ","ῳ","ῴ","ῶ","ῷ","Ὸ",
     "Ό","Ὼ","Ώ","ῼ","U+2102","U+2107","U+210A","U+210B","U+210C","U+210D","U+210E","U+210F",
     "U+2110","U+2111","U+2112","U+2113","U+2115","U+2119","U+211A","U+211B","U+211C","U+211D",
     "U+2124","U+2126","U+2128","U+212A","U+212B","U+212C","U+212D","U+212F","U+2130","U+2131",
     "U+2132","U+2133","U+2134","U+2139","U+213C","U+213D","U+213E","U+213F","U+2145","U+2146",
     "U+2147","U+2148","U+2149","U+214E","U+2160","U+2161","U+2162","U+2163","U+2164","U+2165",
     "U+2166","U+2167","U+2168","U+2169","U+216A","U+216B","U+216C","U+216D","U+216E","U+216F",
     "U+2170","U+2171","U+2172","U+2173","U+2174","U+2175","U+2176","U+2177","U+2178","U+2179",
     "U+217A","U+217B","U+217C","U+217D","U+217E","U+217F","Ↄ","ↄ","Ⓐ","Ⓑ","Ⓒ","Ⓓ","Ⓔ","Ⓕ","Ⓖ","Ⓗ",
     "Ⓘ","Ⓙ","Ⓚ","Ⓛ","Ⓜ","Ⓝ","Ⓞ","Ⓟ","Ⓠ","Ⓡ","Ⓢ","Ⓣ","Ⓤ","Ⓥ","Ⓦ","Ⓧ","Ⓨ","Ⓩ","ⓐ","ⓑ","ⓒ","ⓓ","ⓔ",
     "ⓕ","ⓖ","ⓗ","ⓘ","ⓙ","ⓚ","ⓛ","ⓜ","ⓝ","ⓞ","ⓟ","ⓠ","ⓡ","ⓢ","ⓣ","ⓤ","ⓥ","ⓦ","ⓧ","ⓨ","ⓩ","U+2C00",
     "U+2C01","U+2C02","U+2C03","U+2C04","U+2C05","U+2C06","U+2C07","U+2C08","U+2C09","U+2C0A",
     "U+2C0B","U+2C0C","U+2C0D","U+2C0E","U+2C0F","U+2C10","U+2C11","U+2C12","U+2C13","U+2C14",
     "U+2C15","U+2C16","U+2C17","U+2C18","U+2C19","U+2C1A","U+2C1B","U+2C1C","U+2C1D","U+2C1E",
     "U+2C1F","U+2C20","U+2C21","U+2C22","U+2C23","U+2C24","U+2C25","U+2C26","U+2C27","U+2C28",
     "U+2C29","U+2C2A","U+2C2B","U+2C2C","U+2C2D","U+2C2E","U+2C2F","U+2C30","U+2C31","U+2C32",
     "U+2C33","U+2C34","U+2C35","U+2C36","U+2C37","U+2C38","U+2C39","U+2C3A","U+2C3B","U+2C3C",
     "U+2C3D","U+2C3E","U+2C3F","U+2C40","U+2C41","U+2C42","U+2C43","U+2C44","U+2C45","U+2C46",
     "U+2C47","U+2C48","U+2C49","U+2C4A","U+2C4B","U+2C4C","U+2C4D","U+2C4E","U+2C4F","U+2C50",
     "U+2C51","U+2C52","U+2C53","U+2C54","U+2C55","U+2C56","U+2C57","U+2C58","U+2C59","U+2C5A",
     "U+2C5B","U+2C5C","U+2C5D","U+2C5E","U+2C5F","U+2C60","U+2C61","U+2C62","U+2C63","U+2C64",
     "U+2C65","U+2C66","U+2C67","U+2C68","U+2C69","U+2C6A","U+2C6B","U+2C6C","U+2C6D","U+2C6E",
     "U+2C6F","U+2C70","U+2C71","U+2C72","U+2C73","U+2C74","U+2C75","U+2C76","U+2C77","U+2C78",
     "U+2C79","U+2C7A","U+2C7B","U+2C7E","U+2C7F","Ⲁ","ⲁ","Ⲃ","ⲃ","Ⲅ","ⲅ","Ⲇ","ⲇ","Ⲉ","ⲉ","Ⲋ","ⲋ",
     "Ⲍ","ⲍ","Ⲏ","ⲏ","Ⲑ","ⲑ","Ⲓ","ⲓ","Ⲕ","ⲕ","Ⲗ","ⲗ","Ⲙ","ⲙ","Ⲛ","ⲛ","Ⲝ","ⲝ","Ⲟ","ⲟ","Ⲡ","ⲡ","Ⲣ",
     "ⲣ","Ⲥ","ⲥ","Ⲧ","ⲧ","Ⲩ","ⲩ","Ⲫ","ⲫ","Ⲭ","ⲭ","Ⲯ","ⲯ","Ⲱ","ⲱ","Ⲳ","ⲳ","Ⲵ","ⲵ","Ⲷ","ⲷ","Ⲹ","ⲹ",
     "Ⲻ","ⲻ","Ⲽ","ⲽ","Ⲿ","ⲿ","Ⳁ","ⳁ","Ⳃ","ⳃ","Ⳅ","ⳅ","Ⳇ","ⳇ","Ⳉ","ⳉ","Ⳋ","ⳋ","Ⳍ","ⳍ","Ⳏ","ⳏ","Ⳑ",
     "ⳑ","Ⳓ","ⳓ","Ⳕ","ⳕ","Ⳗ","ⳗ","Ⳙ","ⳙ","Ⳛ","ⳛ","Ⳝ","ⳝ","Ⳟ","ⳟ","Ⳡ","ⳡ","Ⳣ","ⳣ","ⳤ","Ⳬ","ⳬ","Ⳮ",
     "ⳮ","Ⳳ","ⳳ","U+2D00","U+2D01","U+2D02","U+2D03","U+2D04","U+2D05","U+2D06","U+2D07","U+2D08",
     "U+2D09","U+2D0A","U+2D0B","U+2D0C","U+2D0D","U+2D0E","U+2D0F","U+2D10","U+2D11","U+2D12",
     "U+2D13","U+2D14","U+2D15","U+2D16","U+2D17","U+2D18","U+2D19","U+2D1A","U+2D1B","U+2D1C",
     "U+2D1D","U+2D1E","U+2D1F","U+2D20","U+2D21","U+2D22","U+2D23","U+2D24","U+2D25","U+2D27",
     "U+2D2D","U+A640","U+A641","U+A642","U+A643","U+A644","U+A645","U+A646","U+A647","U+A648",
     "U+A649","U+A64A","U+A64B","U+A64C","U+A64D","U+A64E","U+A64F","U+A650","U+A651","U+A652",
     "U+A653","U+A654","U+A655","U+A656","U+A657","U+A658","U+A659","U+A65A","U+A65B","U+A65C",
     "U+A65D","U+A65E","U+A65F","U+A660","U+A661","U+A662","U+A663","U+A664","U+A665","U+A666",
     "U+A667","U+A668","U+A669","U+A66A","U+A66B","U+A66C","U+A66D","Ꚁ","ꚁ","Ꚃ","ꚃ","Ꚅ","ꚅ","Ꚇ","ꚇ",
     "Ꚉ","ꚉ","Ꚋ","ꚋ","Ꚍ","ꚍ","Ꚏ","ꚏ","Ꚑ","ꚑ","Ꚓ","ꚓ","Ꚕ","ꚕ","Ꚗ","ꚗ","Ꚙ","ꚙ","Ꚛ","ꚛ","U+A722",
     "U+A723","U+A724","U+A725","U+A726","U+A727","U+A728","U+A729","U+A72A","U+A72B","U+A72C",
     "U+A72D","U+A72E","U+A72F","U+A730","U+A731","U+A732","U+A733","U+A734","U+A735","U+A736",
     "U+A737","U+A738","U+A739","U+A73A","U+A73B","U+A73C","U+A73D","U+A73E","U+A73F","U+A740",
     "U+A741","U+A742","U+A743","U+A744","U+A745","U+A746","U+A747","U+A748","U+A749","U+A74A",
     "U+A74B","U+A74C","U+A74D","U+A74E","U+A74F","U+A750","U+A751","U+A752","U+A753","U+A754",
     "U+A755","U+A756","U+A757","U+A758","U+A759","U+A75A","U+A75B","U+A75C","U+A75D","U+A75E",
     "U+A75F","U+A760","U+A761","U+A762","U+A763","U+A764","U+A765","U+A766","U+A767","U+A768",
     "U+A769","U+A76A","U+A76B","U+A76C","U+A76D","U+A76E","U+A76F","U+A771","U+A772","U+A773",
     "U+A774","U+A775","U+A776","U+A777","U+A778","U+A779","U+A77A","U+A77B","U+A77C","U+A77D",
     "U+A77E","U+A77F","Ꞁ","ꞁ","Ꞃ","ꞃ","Ꞅ","ꞅ","Ꞇ","ꞇ","Ꞌ","ꞌ","Ɥ","ꞎ","Ꞑ","ꞑ","Ꞓ","ꞓ","ꞔ","ꞕ","Ꞗ",
     "ꞗ","Ꞙ","ꞙ","Ꞛ","ꞛ","Ꞝ","ꞝ","Ꞟ","ꞟ","Ꞡ","ꞡ","Ꞣ","ꞣ","Ꞥ","ꞥ","Ꞧ","ꞧ","Ꞩ","ꞩ","Ɦ","Ɜ","Ɡ","Ɬ",
     "Ɪ","ꞯ","Ʞ","Ʇ","Ʝ","Ꭓ","Ꞵ","ꞵ","Ꞷ","ꞷ","Ꞹ","ꞹ","Ꞻ","ꞻ","Ꞽ","ꞽ","Ꞿ","ꞿ","Ꟁ","ꟁ","Ꟃ","ꟃ","Ꞔ",
     "Ʂ","Ᶎ","Ꟈ","ꟈ","Ꟊ","ꟊ","Ɤ","Ꟍ","ꟍ","꟎","꟏","Ꟑ","ꟑ","꟒","ꟓ","꟔","ꟕ","Ꟗ","ꟗ","Ꟙ","ꟙ","Ꟛ","ꟛ",
     "Ƛ","Ꟶ","ꟶ","ꟺ","U+AB30","U+AB31","U+AB32","U+AB33","U+AB34","U+AB35","U+AB36","U+AB37",
     "U+AB38","U+AB39","U+AB3A","U+AB3B","U+AB3C","U+AB3D","U+AB3E","U+AB3F","U+AB40","U+AB41",
     "U+AB42","U+AB43","U+AB44","U+AB45","U+AB46","U+AB47","U+AB48","U+AB49","U+AB4A","U+AB4B",
     "U+AB4C","U+AB4D","U+AB4E","U+AB4F","U+AB50","U+AB51","U+AB52","U+AB53","U+AB54","U+AB55",
     "U+AB56","U+AB57","U+AB58","U+AB59","U+AB5A","U+AB60","U+AB61","U+AB62","U+AB63","U+AB64",
     "U+AB65","U+AB66","U+AB67","U+AB68","U+AB70","U+AB71","U+AB72","U+AB73","U+AB74","U+AB75",
     "U+AB76","U+AB77","U+AB78","U+AB79","U+AB7A","U+AB7B","U+AB7C","U+AB7D","U+AB7E","U+AB7F","ꮀ",
     "ꮁ","ꮂ","ꮃ","ꮄ","ꮅ","ꮆ","ꮇ","ꮈ","ꮉ","ꮊ","ꮋ","ꮌ","ꮍ","ꮎ","ꮏ","ꮐ","ꮑ","ꮒ","ꮓ","ꮔ","ꮕ","ꮖ","ꮗ",
     "ꮘ","ꮙ","ꮚ","ꮛ","ꮜ","ꮝ","ꮞ","ꮟ","ꮠ","ꮡ","ꮢ","ꮣ","ꮤ","ꮥ","ꮦ","ꮧ","ꮨ","ꮩ","ꮪ","ꮫ","ꮬ","ꮭ","ꮮ",
     "ꮯ","ꮰ","ꮱ","ꮲ","ꮳ","ꮴ","ꮵ","ꮶ","ꮷ","ꮸ","ꮹ","ꮺ","ꮻ","ꮼ","ꮽ","ꮾ","ꮿ","U+FB00","U+FB01","U+FB02",
     "U+FB03","U+FB04","U+FB05","U+FB06","U+FB13","U+FB14","U+FB15","U+FB16","U+FB17","U+FF21",
     "U+FF22","U+FF23","U+FF24","U+FF25","U+FF26","U+FF27","U+FF28","U+FF29","U+FF2A","U+FF2B",
     "U+FF2C","U+FF2D","U+FF2E","U+FF2F","U+FF30","U+FF31","U+FF32","U+FF33","U+FF34","U+FF35",
     "U+FF36","U+FF37","U+FF38","U+FF39","U+FF3A","U+FF41","U+FF42","U+FF43","U+FF44","U+FF45",
     "U+FF46","U+FF47","U+FF48","U+FF49","U+FF4A","U+FF4B","U+FF4C","U+FF4D","U+FF4E","U+FF4F",
     "U+FF50","U+FF51","U+FF52","U+FF53","U+FF54","U+FF55","U+FF56","U+FF57","U+FF58","U+FF59",
     "U+FF5A"}

\* those written as a pair of surrogates, in runs <<high, first, last>>
CasedPairRuns == 
    <<<<"U+D801",1,80>>,<<"U+D801",177,212>>,<<"U+D801",217,252>>,<<"U+D801",369,379>>,
     <<"U+D801",381,395>>,<<"U+D801",397,403>>,<<"U+D801",405,406>>,<<"U+D801",408,418>>,
     <<"U+D801",420,434>>,<<"U+D801",436,442>>,<<"U+D801",444,445>>,<<"U+D803",129,179>>,
     <<"U+D803",193,243>>,<<"U+D803",337,358>>,<<"U+D803",369,390>>,<<"U+D806",161,224>>,
     <<"U+D81B",577,640>>,<<"U+D81B",673,697>>,<<"U+D81B",700,724>>,<<"U+D835",1,85>>,
     <<"U+D835",87,157>>,<<"U+D835",159,160>>,<<"U+D835",163,163>>,<<"U+D835",166,167>>,
     <<"U+D835",170,173>>,<<"U+D835",175,186>>,<<"U+D835",188,188>>,<<"U+D835",190,196>>,
     <<"U+D835",198,262>>,<<"U+D835",264,267>>,<<"U+D835",270,277>>,<<"U+D835",279,285>>,
     <<"U+D835",287,314>>,<<"U+D835",316,319>>,<<"U+D835",321,325>>,<<"U+D835",327,327>>,
     <<"U+D835",331,337>>,<<"U+D835",339,678>>,<<"U+D835",681,705>>,<<"U+D835",707,731>>,
     <<"U+D835",733,763>>,<<"U+D835",765,789>>,<<"U+D835",791,821>>,<<"U+D835",823,847>>,
     <<"U+D835",849,879>>,<<"U+D835",881,905>>,<<"U+D835",907,937>>,<<"U+D835",939,963>>,
     <<"U+D835",965,972>>,<<"U+D837",769,778>>,<<"U+D837",780,799>>,<<"U+D837",806,811>>,
     <<"U+D83A",257,324>>,<<"U+D83C",305,330>>,<<"U+D83C",337,362>>,<<"U+D83C",369,394>>>>

\* the case-ignorable characters
CaseIgnorable == 
    {"'",".",":","^","U+0060","¨","­","¯","´","·","¸","ʰ","ʱ","ʲ","ʳ","ʴ","ʵ","ʶ","ʷ","ʸ","ʹ","ʺ",
     "ʻ","ʼ","ʽ","ʾ","ʿ","ˀ","ˁ","˂","˃","˄","˅","ˆ","ˇ","ˈ","ˉ","ˊ","ˋ","ˌ","ˍ","ˎ","ˏ","ː","ˑ",
     "˒","˓","˔","˕","˖","˗","˘","˙","˚","˛","˜","˝","˞","˟","ˠ","ˡ","ˢ","ˣ","ˤ","˥","˦","˧","˨",
     "˩","˪","˫","ˬ","˭","ˮ","˯","˰","˱","˲","˳","˴","˵","˶","˷","˸","˹","˺","˻","˼","˽","˾","˿",
     "U+0300","U+0301","U+0302","U+0303","U+0304","U+0305","U+0306","U+0307","U+0308","U+0309",
     "U+030A","U+030B","U+030C","U+030D","U+030E","U+030F","U+0310","U+0311","U+0312","U+0313",
     "U+0314","U+0315","U+0316","U+0317","U+0318","U+0319","U+031A","U+031B","U+031C","U+031D",
     "U+031E","U+031F","U+0320","U+0321","U+0322","U+0323","U+0324","U+0325","U+0326","U+0327",
     "U+0328","U+0329","U+032A","U+032B","U+032C","U+032D","U+032E","U+032F","U+0330","U+0331",
     "U+0332","U+0333","U+0334","U+0335","U+0336","U+0337","U+0338","U+0339","U+033A","U+033B",
     "U+033C","U+033D","U+033E","U+033F","U+0340","U+0341","U+0342","U+0343","U+0344","U+0345",
     "U+0346","U+0347","U+0348","U+0349","U+034A","U+034B","U+034C","U+034D","U+034E","U+034F",
     "U+0350","U+0351","U+0352","U+0353","U+0354","U+0355","U+0356","U+0357","U+0358","U+0359",
     "U+035A","U+035B","U+035C","U+035D","U+035E","U+035F","U+0360","U+0361","U+0362","U+0363",
     "U+0364","U+0365","U+0366","U+0367","U+0368","U+0369","U+036A","U+036B","U+036C","U+036D",
     "U+036E","U+036F","U+0374","U+0375","U+037A","΄","΅","·","҃","҄","҅","҆","҇","҈","҉","U+0559",
     "U+055F","֑","֒","֓","֔","֕","֖","֗","֘","֙","֚","֛","֜","֝","֞","֟","֠","֡","֢","֣","֤","֥",
     "֦","֧","֨","֩","֪","֫","֬","֭","֮","֯","ְ","ֱ","ֲ","ֳ","ִ","ֵ","ֶ","ַ","ָ","ֹ","ֺ","ֻ","ּ",
     "ֽ","ֿ","ׁ","ׂ","ׄ","ׅ","ׇ","״","U+0600","U+0601","U+0602","U+0603","U+0604","U+0605","U+0610",
     "U+0611","U+0612","U+0613","U+0614","U+0615","U+0616","U+0617","U+0618","U+0619","U+061A",
     "U+061C","U+0640","U+064B","U+064C","U+064D","U+064E","U+064F","U+0650","U+0651","U+0652",
     "U+0653","U+0654","U+0655","U+0656","U+0657","U+0658","U+0659","U+065A","U+065B","U+065C",
     "U+065D","U+065E","U+065F","U+0670","ۖ","ۗ","ۘ","ۙ","ۚ","ۛ","ۜ","۝","۟","۠","ۡ","ۢ","ۣ","ۤ",
     "ۥ","ۦ","ۧ","ۨ","۪","۫","۬","ۭ","U+070F","U+0711","U+0730","U+0731","U+0732","U+0733","U+0734",
     "U+0735","U+0736","U+0737","U+0738","U+0739","U+073A","U+073B","U+073C","U+073D","U+073E",
     "U+073F","U+0740","U+0741","U+0742","U+0743","U+0744","U+0745","U+0746","U+0747","U+0748",
     "U+0749","U+074A","ަ","ާ","ި","ީ","ު","ޫ","ެ","ޭ","ޮ","ޯ","ް","߫","߬","߭","߮","߯","߰","߱","߲",
     "߳","ߴ","ߵ","ߺ","߽","U+0816","U+0817","U+0818","U+0819","U+081A","U+081B","U+081C","U+081D",
     "U+081E","U+081F","U+0820","U+0821","U+0822","U+0823","U+0824","U+0825","U+0826","U+0827",
     "U+0828","U+0829","U+082A","U+082B","U+082C","U+082D","U+0859","U+085A","U+085B","࢈","࢐","࢑",
     "ࢗ","࢘","࢙","࢚","࢛","࢜","࢝","࢞","࢟","ࣉ","࣊","࣋","࣌","࣍","࣎","࣏","࣐","࣑","࣒","࣓","ࣔ","ࣕ","ࣖ",
     "ࣗ","ࣘ","ࣙ","ࣚ","ࣛ","ࣜ","ࣝ","ࣞ","ࣟ","࣠","࣡","࣢","ࣣ","ࣤ","ࣥ","ࣦ","ࣧ","ࣨ","ࣩ","࣪","࣫","࣬","࣭",
     "࣮","࣯","ࣰ","ࣱ","ࣲ","ࣳ","ࣴ","ࣵ","ࣶ","ࣷ","ࣸ","ࣹ","ࣺ","ࣻ","ࣼ","ࣽ","ࣾ","ࣿ","U+0900","U+0901",
     "U+0902","U+093A","U+093C","U+0941","U+0942","U+0943","U+0944","U+0945","U+0946","U+0947",
     "U+0948","U+094D","U+0951","U+0952","U+0953","U+0954","U+0955","U+0956","U+0957","U+0962",
     "U+0963","U+0971","ঁ","়","ু","ূ","ৃ","ৄ","্","ৢ","ৣ","৾","U+0A01","U+0A02","U+0A3C","U+0A41",
     "U+0A42","U+0A47","U+0A48","U+0A4B","U+0A4C","U+0A4D","U+0A51","U+0A70","U+0A71","U+0A75","ઁ",
     "ં","઼","ુ","ૂ","ૃ","ૄ","ૅ","ે","ૈ","્","ૢ","ૣ","ૺ","ૻ","ૼ","૽","૾","૿","U+0B01","U+0B3C",
     "U+0B3F","U+0B41","U+0B42","U+0B43","U+0B44","U+0B4D","U+0B55","U+0B56","U+0B62","U+0B63","ஂ",
     "ீ","்","U+0C00","U+0C04","U+0C3C","U+0C3E","U+0C3F","U+0C40","U+0C46","U+0C47","U+0C48",
     "U+0C4A","U+0C4B","U+0C4C","U+0C4D","U+0C55","U+0C56","U+0C62","U+0C63","ಁ","಼","ಿ","ೆ","ೌ",
     "್","ೢ","ೣ","U+0D00","U+0D01","U+0D3B","U+0D3C","U+0D41","U+0D42","U+0D43","U+0D44","U+0D4D",
     "U+0D62","U+0D63","ඁ","්","ි","ී","ු","ූ","U+0E31","U+0E34","U+0E35","U+0E36","U+0E37",
     "U+0E38","U+0E39","U+0E3A","U+0E46","U+0E47","U+0E48","U+0E49","U+0E4A","U+0E4B","U+0E4C",
     "U+0E4D","U+0E4E","ັ","ິ","ີ","ຶ","ື","ຸ","ູ","຺","ົ","ຼ","ໆ","່","້","໊","໋","໌","ໍ","໎",
     "U+0F18","U+0F19","U+0F35","U+0F37","U+0F39","U+0F71","U+0F72","U+0F73","U+0F74","U+0F75",
     "U+0F76","U+0F77","U+0F78","U+0F79","U+0F7A","U+0F7B","U+0F7C","U+0F7D","U+0F7E","ྀ","ཱྀ","ྂ",
     "ྃ","྄","྆","྇","ྍ","ྎ","ྏ","ྐ","ྑ","ྒ","ྒྷ","ྔ","ྕ","ྖ","ྗ","ྙ","ྚ","ྛ","ྜ","ྜྷ","ྞ","ྟ","ྠ",
     "ྡ","ྡྷ","ྣ","ྤ","ྥ","ྦ","ྦྷ","ྨ","ྩ","ྪ","ྫ","ྫྷ","ྭ","ྮ","ྯ","ྰ","ྱ","ྲ","ླ","ྴ","ྵ","ྶ","ྷ",
     "ྸ","ྐྵ","ྺ","ྻ","ྼ","࿆","U+102D","U+102E","U+102F","U+1030","U+1032","U+1033","U+1034",
     "U+1035","U+1036","U+1037","U+1039","U+103A","U+103D","U+103E","U+1058","U+1059","U+105E",
     "U+105F","U+1060","U+1071","U+1072","U+1073","U+1074","ႂ","ႅ","ႆ","ႍ","ႝ","ჼ","U+135D",
     "U+135E","U+135F","U+1712","U+1713","U+1714","U+1732","U+1733","U+1752","U+1753","U+1772",
     "U+1773","឴","឵","ិ","ី","ឹ","ឺ","ុ","ូ","ួ","ំ","៉","៊","់","៌","៍","៎","៏","័","៑","្","៓",
     "ៗ","៝","U+180B","U+180C","U+180D","U+180E","U+180F","U+1843","ᢅ","ᢆ","ᢩ","U+1920","U+1921",
     "U+1922","U+1927","U+1928","U+1932","U+1939","U+193A","U+193B","U+1A17","U+1A18","U+1A1B",
     "U+1A56","U+1A58","U+1A59","U+1A5A","U+1A5B","U+1A5C","U+1A5D","U+1A5E","U+1A60","U+1A62",
     "U+1A65","U+1A66","U+1A67","U+1A68","U+1A69","U+1A6A","U+1A6B","U+1A6C","U+1A73","U+1A74",
     "U+1A75","U+1A76","U+1A77","U+1A78","U+1A79","U+1A7A","U+1A7B","U+1A7C","U+1A7F","ᪧ","᪰","᪱",
     "᪲","᪳","᪴","᪵","᪶","᪷","᪸","᪹","᪺","᪻","᪼","᪽","᪾","ᪿ","ᫀ","᫁","᫂","᫃","᫄","᫅","᫆","᫇","᫈",
     "᫉","᫊","᫋","ᫌ","ᫍ","ᫎ","᫏","᫐","᫑","᫒","᫓","᫔","᫕","᫖","᫗","᫘","᫙","᫚","᫛","᫜","᫝","᫠","᫡",
     "᫢","᫣","᫤","᫥","᫦","᫧","᫨","᫩","᫪","᫫","U+1B00","U+1B01","U+1B02","U+1B03","U+1B34","U+1B36",
     "U+1B37","U+1B38","U+1B39","U+1B3A","U+1B3C","U+1B42","U+1B6B","U+1B6C","U+1B6D","U+1B6E",
     "U+1B6F","U+1B70","U+1B71","U+1B72","U+1B73","ᮀ","ᮁ","ᮢ","ᮣ","ᮤ","ᮥ","ᮨ","ᮩ","᮫","ᮬ","ᮭ","᯦",
     "ᯨ","ᯩ","ᯭ","ᯯ","ᯰ","ᯱ","U+1C2C","U+1C2D","U+1C2E","U+1C2F","U+1C30","U+1C31","U+1C32",
     "U+1C33","U+1C36","U+1C37","U+1C78","U+1C79","U+1C7A","U+1C7B","U+1C7C","U+1C7D","᳐","᳑","᳒",
     "᳔","᳕","᳖","᳗","᳘","᳙","᳚","᳛","᳜","᳝","᳞","᳟","᳠","᳢","᳣","᳤","᳥","᳦","᳧","᳨","᳭","᳴","᳸",
     "᳹","U+1D2C","U+1D2D","U+1D2E","U+1D2F","U+1D30","U+1D31","U+1D32","U+1D33","U+1D34","U+1D35",
     "U+1D36","U+1D37","U+1D38","U+1D39","U+1D3A","U+1D3B","U+1D3C","U+1D3D","U+1D3E","U+1D3F",
     "U+1D40","U+1D41","U+1D42","U+1D43","U+1D44","U+1D45","U+1D46","U+1D47","U+1D48","U+1D49",
     "U+1D4A","U+1D4B","U+1D4C","U+1D4D","U+1D4E","U+1D4F","U+1D50","U+1D51","U+1D52","U+1D53",
     "U+1D54","U+1D55","U+1D56","U+1D57","U+1D58","U+1D59","U+1D5A","U+1D5B","U+1D5C","U+1D5D",
     "U+1D5E","U+1D5F","U+1D60","U+1D61","U+1D62","U+1D63","U+1D64","U+1D65","U+1D66","U+1D67",
     "U+1D68","U+1D69","U+1D6A","U+1D78","ᶛ","ᶜ","ᶝ","ᶞ","ᶟ","ᶠ","ᶡ","ᶢ","ᶣ","ᶤ","ᶥ","ᶦ","ᶧ","ᶨ",
     "ᶩ","ᶪ","ᶫ","ᶬ","ᶭ","ᶮ","ᶯ","ᶰ","ᶱ","ᶲ","ᶳ","ᶴ","ᶵ","ᶶ","ᶷ","ᶸ","ᶹ","ᶺ","ᶻ","ᶼ","ᶽ","ᶾ","ᶿ",
     "᷀","᷁","᷂","᷃","᷄","᷅","᷆","᷇","᷈","᷉","᷊","᷋","᷌","᷍","᷎","᷏","᷐","᷑","᷒","ᷓ","ᷔ","ᷕ","ᷖ",
     "ᷗ","ᷘ","ᷙ","ᷚ","ᷛ","ᷜ","ᷝ","ᷞ","ᷟ","ᷠ","ᷡ","ᷢ","ᷣ","ᷤ","ᷥ","ᷦ","ᷧ","ᷨ","ᷩ","ᷪ","ᷫ","ᷬ","ᷭ",
     "ᷮ","ᷯ","ᷰ","ᷱ","ᷲ","ᷳ","ᷴ","᷵","᷶","᷷","᷸","᷹","᷺","᷻","᷼","᷽","᷾","᷿","᾽","᾿","῀","῁","῍",
     "῎","῏","῝","῞","῟","῭","΅","`","´","῾","U+200B","U+200C","U+200D","U+200E","U+200F","U+2018",
     "U+2019","U+2024","U+2027","U+202A","U+202B","U+202C","U+202D","U+202E","U+2060","U+2061",
     "U+2062","U+2063","U+2064","U+2066","U+2067","U+2068","U+2069","U+206A","U+206B","U+206C",
     "U+206D","U+206E","U+206F","U+2071","U+207F","ₐ","ₑ","ₒ","ₓ","ₔ","ₕ","ₖ","ₗ","ₘ","ₙ","ₚ","ₛ",
     "ₜ","⃐","⃑","⃒","⃓","⃔","⃕","⃖","⃗","⃘","⃙","⃚","⃛","⃜","⃝","⃞","⃟","⃠","⃡","⃢","⃣","⃤","⃥",
     "⃦","⃧","⃨","⃩","⃪","⃫","⃬","⃭","⃮","⃯","⃰","U+2C7C","U+2C7D","⳯","⳰","⳱","U+2D6F","U+2D7F",
     "ⷠ","ⷡ","ⷢ","ⷣ","ⷤ","ⷥ","ⷦ","ⷧ","ⷨ","ⷩ","ⷪ","ⷫ","ⷬ","ⷭ","ⷮ","ⷯ","ⷰ","ⷱ","ⷲ","ⷳ","ⷴ","ⷵ","ⷶ",
     "ⷷ","ⷸ","ⷹ","ⷺ","ⷻ","ⷼ","ⷽ","ⷾ","ⷿ","U+2E2F","U+3005","U+302A","U+302B","U+302C","U+302D",
     "U+3031","U+3032","U+3033","U+3034","U+3035","U+303B","゙","゚","゛","゜","ゝ","ゞ","ー","ヽ","ヾ",
     "U+A015","ꓸ","ꓹ","ꓺ","ꓻ","ꓼ","ꓽ","U+A60C","U+A66F","U+A670","U+A671","U+A672","U+A674",
     "U+A675","U+A676","U+A677","U+A678","U+A679","U+A67A","U+A67B","U+A67C","U+A67D","U+A67F","ꚜ",
     "ꚝ","ꚞ","ꚟ","꛰","꛱","U+A700","U+A701","U+A702","U+A703","U+A704","U+A705","U+A706","U+A707",
     "U+A708","U+A709","U+A70A","U+A70B","U+A70C","U+A70D","U+A70E","U+A70F","U+A710","U+A711",
     "U+A712","U+A713","U+A714","U+A715","U+A716","U+A717","U+A718","U+A719","U+A71A","U+A71B",
     "U+A71C","U+A71D","U+A71E","U+A71F","U+A720","U+A721","U+A770","ꞈ","꞉","꞊","꟱","ꟲ","ꟳ","ꟴ","ꟸ",
     "ꟹ","U+A802","U+A806","U+A80B","U+A825","U+A826","U+A82C","꣄","ꣅ","꣠","꣡","꣢","꣣","꣤","꣥","꣦",
     "꣧","꣨","꣩","꣪","꣫","꣬","꣭","꣮","꣯","꣰","꣱","ꣿ","U+A926","U+A927","U+A928","U+A929","U+A92A",
     "U+A92B","U+A92C","U+A92D","U+A947","U+A948","U+A949","U+A94A","U+A94B","U+A94C","U+A94D",
     "U+A94E","U+A94F","U+A950","U+A951","ꦀ","ꦁ","ꦂ","꦳","ꦶ","ꦷ","ꦸ","ꦹ","ꦼ","ꦽ","ꧏ","ꧥ","ꧦ",
     "U+AA29","U+AA2A","U+AA2B","U+AA2C","U+AA2D","U+AA2E","U+AA31","U+AA32","U+AA35","U+AA36",
     "U+AA43","U+AA4C","U+AA70","U+AA7C","ꪰ","ꪲ","ꪳ","ꪴ","ꪷ","ꪸ","ꪾ","꪿","꫁","ꫝ","ꫬ","ꫭ","ꫳ","ꫴ",
     "꫶","U+AB5B","U+AB5C","U+AB5D","U+AB5E","U+AB5F","U+AB69","U+AB6A","U+AB6B","ꯥ","ꯨ","꯭",
     "U+FB1E","﮲","﮳","﮴","﮵","﮶","﮷","﮸","﮹","﮺","﮻","﮼","﮽","﮾","﮿","﯀","﯁","﯂","U+FE00","U+FE01",
     "U+FE02","U+FE03","U+FE04","U+FE05","U+FE06","U+FE07","U+FE08","U+FE09","U+FE0A","U+FE0B",
     "U+FE0C","U+FE0D","U+FE0E","U+FE0F","U+FE13","U+FE20","U+FE21","U+FE22","U+FE23","U+FE24",
     "U+FE25","U+FE26","U+FE27","U+FE28","U+FE29","U+FE2A","U+FE2B","U+FE2C","U+FE2D","U+FE2E",
     "U+FE2F","U+FE52","U+FE55","﻿","U+FF07","U+FF0E","U+FF1A","U+FF3E","U+FF40","U+FF70","ﾞ","ﾟ",
     "￣","￹","￺","￻"}

IgnorablePairRuns == 
    <<<<"U+D800",510,510>>,<<"U+D800",737,737>>,<<"U+D800",887,891>>,<<"U+D801",897,902>>,
     <<"U+D801",904,945>>,<<"U+D801",947,955>>,<<"U+D802",514,516>>,<<"U+D802",518,519>>,
     <<"U+D802",525,528>>,<<"U+D802",569,571>>,<<"U+D802",576,576>>,<<"U+D802",742,743>>,
     <<"U+D803",293,296>>,<<"U+D803",335,335>>,<<"U+D803",362,366>>,<<"U+D803",368,368>>,
     <<"U+D803",684,685>>,<<"U+D803",710,710>>,<<"U+D803",763,768>>,<<"U+D803",839,849>>,
     <<"U+D803",899,902>>,<<"U+D804",2,2>>,<<"U+D804",57,71>>,<<"U+D804",113,113>>,
     <<"U+D804",116,117>>,<<"U+D804",128,130>>,<<"U+D804",180,183>>,<<"U+D804",186,187>>,
     <<"U+D804",190,190>>,<<"U+D804",195,195>>,<<"U+D804",206,206>>,<<"U+D804",257,259>>,
     <<"U+D804",296,300>>,<<"U+D804",302,309>>,<<"U+D804",372,372>>,<<"U+D804",385,386>>,
     <<"U+D804",439,447>>,<<"U+D804",458,461>>,<<"U+D804",464,464>>,<<"U+D804",560,562>>,
     <<"U+D804",565,565>>,<<"U+D804",567,568>>,<<"U+D804",575,575>>,<<"U+D804",578,578>>,
     <<"U+D804",736,736>>,<<"U+D804",740,747>>,<<"U+D804",769,770>>,<<"U+D804",828,829>>,
     <<"U+D804",833,833>>,<<"U+D804",871,877>>,<<"U+D804",881,885>>,<<"U+D804",956,961>>,
     <<"U+D804",975,975>>,<<"U+D804",977,977>>,<<"U+D804",979,979>>,<<"U+D804",994,995>>,
     <<"U+D805",57,64>>,<<"U+D805",67,69>>,<<"U+D805",71,71>>,<<"U+D805",95,95>>,
     <<"U+D805",180,185>>,<<"U+D805",187,187>>,<<"U+D805",192,193>>,<<"U+D805",195,196>>,
     <<"U+D805",435,438>>,<<"U+D805",445,446>>,<<"U+D805",448,449>>,<<"U+D805",477,478>>,
     <<"U+D805",564,571>>,<<"U+D805",574,574>>,<<"U+D805",576,577>>,<<"U+D805",684,684>>,
     <<"U+D805",686,686>>,<<"U+D805",689,694>>,<<"U+D805",696,696>>,<<"U+D805",798,798>>,
     <<"U+D805",800,800>>,<<"U+D805",803,806>>,<<"U+D805",808,812>>,<<"U+D806",48,56>>,
     <<"U+D806",58,59>>,<<"U+D806",316,317>>,<<"U+D806",319,319>>,<<"U+D806",324,324>>,
     <<"U+D806",469,472>>,<<"U+D806",475,476>>,<<"U+D806",481,481>>,<<"U+D806",514,523>>,
     <<"U+D806",564,569>>,<<"U+D806",572,575>>,<<"U+D806",584,584>>,<<"U+D806",594,599>>,
     <<"U+D806",602,604>>,<<"U+D806",651,663>>,<<"U+D806",665,666>>,<<"U+D806",865,865>>,
     <<"U+D806",867,869>>,<<"U+D806",871,871>>,<<"U+D807",49,55>>,<<"U+D807",57,62>>,
     <<"U+D807",64,64>>,<<"U+D807",147,168>>,<<"U+D807",171,177>>,<<"U+D807",179,180>>,
     <<"U+D807",182,183>>,<<"U+D807",306,311>>,<<"U+D807",315,315>>,<<"U+D807",317,318>>,
     <<"U+D807",320,326>>,<<"U+D807",328,328>>,<<"U+D807",401,402>>,<<"U+D807",406,406>>,
     <<"U+D807",408,408>>,<<"U+D807",474,474>>,<<"U+D807",756,757>>,<<"U+D807",769,770>>,
     <<"U+D807",823,827>>,<<"U+D807",833,833>>,<<"U+D807",835,835>>,<<"U+D807",859,859>>,
     <<"U+D80D",49,65>>,<<"U+D80D",72,86>>,<<"U+D818",287,298>>,<<"U+D818",302,304>>,
     <<"U+D81A",753,757>>,<<"U+D81A",817,823>>,<<"U+D81A",833,836>>,<<"U+D81B",321,323>>,
     <<"U+D81B",364,365>>,<<"U+D81B",848,848>>,<<"U+D81B",912,928>>,<<"U+D81B",993,994>>,
     <<"U+D81B",996,997>>,<<"U+D81B",1011,1012>>,<<"U+D82B",1009,1012>>,<<"U+D82B",1014,1020>>,
     <<"U+D82B",1022,1023>>,<<"U+D82F",158,159>>,<<"U+D82F",161,164>>,<<"U+D833",769,814>>,
     <<"U+D833",817,839>>,<<"U+D834",360,362>>,<<"U+D834",372,387>>,<<"U+D834",390,396>>,
     <<"U+D834",427,430>>,<<"U+D834",579,581>>,<<"U+D836",513,567>>,<<"U+D836",572,621>>,
     <<"U+D836",630,630>>,<<"U+D836",645,645>>,<<"U+D836",668,672>>,<<"U+D836",674,688>>,
     <<"U+D838",1,7>>,<<"U+D838",9,25>>,<<"U+D838",28,34>>,<<"U+D838",36,37>>,<<"U+D838",39,43>>,
     <<"U+D838",49,110>>,<<"U+D838",144,144>>,<<"U+D838",305,318>>,<<"U+D838",687,687>>,
     <<"U+D838",749,752>>,<<"U+D839",236,240>>,<<"U+D839",495,496>>,<<"U+D839",740,740>>,
     <<"U+D839",743,743>>,<<"U+D839",751,752>>,<<"U+D839",758,758>>,<<"U+D839",768,768>>,
     <<"U+D83A",209,215>>,<<"U+D83A",325,332>>,<<"U+D83C",1020,1024>>,<<"U+DB40",2,2>>,
     <<"U+DB40",33,128>>,<<"U+DB40",257,496>>>>

LowerCaseKeys == {LowerCaseFrom[i] : i \in DOMAIN LowerCaseFrom}

UpperCaseKeys == {UpperCaseFrom[i] : i \in DOMAIN UpperCaseFrom}

\* the pair p of surrogates is in run r
InRun(p, r) == p[1] = r[1] /\ p[2] \in LowSurrogates /\ LowPlace(p[2]) \in r[2]..r[3]

InRuns(p, runs) == \E i \in DOMAIN runs : InRun(p, runs[i])

\* what the runs of a conversion give for the pair p
PairBy(p, runs) ==
    IF InRuns(p, runs)
    THEN CHOOSE q \in {<<runs[i][4], LowSurrogateSeq[LowPlace(p[2]) + runs[i][5]]>> :
                          i \in {k \in DOMAIN runs : InRun(p, runs[k])}} : TRUE
    ELSE p

\* the lower case of a character that stands alone
LowerText(c) ==
    IF c \in LowerCaseKeys
    THEN LowerCaseTo[CHOOSE i \in DOMAIN LowerCaseFrom : LowerCaseFrom[i] = c]
    ELSE <<ToLowerChar(c)>>

\* the upper case of a character
UpperText(c) ==
    IF c \in UpperCaseKeys
    THEN UpperCaseTo[CHOOSE i \in DOMAIN UpperCaseFrom : UpperCaseFrom[i] = c]
    ELSE <<ToUpperChar(c)>>

\* the lower case of a code point that stands alone
LowerPoint(p) ==
    IF Len(p) = 1 THEN LowerText(p[1]) ELSE PairBy(p, LowerPairRuns)

\* the upper case of a code point
UpperPoint(p) ==
    IF Len(p) = 1 THEN UpperText(p[1]) ELSE PairBy(p, UpperPairRuns)

IsCased(p) == IF Len(p) = 1 THEN p[1] \in CasedLetters ELSE InRuns(p, CasedPairRuns)

IsIgnorable(p) ==
    IF Len(p) = 1 THEN p[1] \in CaseIgnorable ELSE InRuns(p, IgnorablePairRuns)

\* the capital sigma at place i of the code points cp is final: a cased
\* letter and then case-ignorable characters only are in front of it, and no
\* cased letter follows it after case-ignorable characters only
FinalSigma(cp, i) ==
    /\ \E j \in 1..(i - 1) :
           IsCased(cp[j]) /\ \A k \in (j + 1)..(i - 1) : IsIgnorable(cp[k])
    /\ ~\E j \in (i + 1)..Len(cp) :
           IsCased(cp[j]) /\ \A k \in (i + 1)..(j - 1) : IsIgnorable(cp[k])

RECURSIVE ConcatAll(_)
ConcatAll(parts) == IF parts = <<>> THEN <<>> ELSE Head(parts) \o ConcatAll(Tail(parts))

\* the lower case of a text given by its code points
LowerPoints(cp) ==
    ConcatAll([i \in 1..Len(cp) |->
                  IF cp[i] = <<"Σ">> /\ FinalSigma(cp, i) THEN <<"ς">>
                  ELSE LowerPoint(cp[i])])

\* String.prototype.toLowerCase
toLowerCase(s) ==
    IF \A i \in 1..Len(s) : s[i] \notin LowerCaseKeys /\ s[i] \notin HighSurrogates
    THEN [i \in 1..Len(s) |-> ToLowerChar(s[i])]
    ELSE CHOOSE text \in {LowerPoints(cp) : cp \in {CodePoints(s)}} : TRUE

\* String.prototype.toUpperCase
toUpperCase(s) ==
    IF \A i \in 1..Len(s) : s[i] \notin UpperCaseKeys /\ s[i] \notin HighSurrogates
    THEN [i \in 1..Len(s) |-> ToUpperChar(s[i])]
    ELSE CHOOSE text \in {ConcatAll([i \in 1..Len(cp) |-> UpperPoint(cp[i])]) :
                             cp \in {CodePoints(s)}} : TRUE

\* Canonicalize of a regular expression with the flag i and without the
\* flag u: the upper case of the character when that is one character,
\* but no character outside ASCII is taken to one inside
CanonicalizeChar(c) ==
    IF c \notin UpperCaseKeys THEN ToUpperChar(c)
    ELSE IF Len(UpperText(c)) = 1 /\ UpperText(c)[1] \notin Upper THEN UpperText(c)[1]
    ELSE c

Canonicalize(s) == [i \in 1..Len(s) |-> CanonicalizeChar(s[i])]

\* lit occurs in s at position i
IsAt(s, i, lit) ==
    /\ i >= 1
    /\ i + Len(lit) - 1 <= Len(s)
    /\ \A k \in 1..Len(lit) : s[i + k - 1] = lit[k]

Min(S) == CHOOSE x \in S : \A y \in S : x <= y

\* first position >= from at which lit occurs in s; 0 when there is none
IndexFrom(s, lit, from) ==
    LET hits == {p \in from..(Len(s) - Len(lit) + 1) : IsAt(s, p, lit)}
    IN  IF hits = {} THEN 0 ELSE Min(hits)

includes(s, lit) == IndexFrom(s, lit, 1) # 0

startsWith(s, lit) == IsAt(s, 1, lit)

endsWith(s, lit) == IsAt(s, Len(s) - Len(lit) + 1, lit)

\* first position >= i whose character is not in class C (Len(s)+1 at the end):
\* the end of a greedy run C*
RECURSIVE SkipIn(_, _, _)
SkipIn(s, i, C) ==
    IF i <= Len(s) /\ s[i] \in C THEN SkipIn(s, i + 1, C) ELSE i

\* the end of a greedy run [^...]* for the excluded characters X: the first
\* position >= i whose character is in X (Len(s)+1 when there is none)
SkipNotIn(s, i, X) ==
    LET hits == {k \in i..Len(s) : s[k] \in X}
    IN  IF hits = {} THEN (IF i > Len(s) THEN i ELSE Len(s) + 1) ELSE Min(hits)

\* last position <= i whose character is not in class C (0 at the start)
RECURSIVE SkipBackIn(_, _, _)
SkipBackIn(s, i, C) ==
    IF i >= 1 /\ s[i] \in C THEN SkipBackIn(s, i - 1, C) ELSE i

trim(s) ==
    LET a == SkipIn(s, 1, Space)
        b == SkipBackIn(s, Len(s), Space)
    IN  IF a > b THEN <<>> ELSE SubSeq(s, a, b)

\* String.prototype.split with a one-character separator
RECURSIVE SplitFrom(_, _, _)
SplitFrom(s, ch, i) ==
    LET j == IndexFrom(s, <<ch>>, i)
    IN  IF j = 0 THEN <<SubSeq(s, i, Len(s))>>
        ELSE <<SubSeq(s, i, j - 1)>> \o SplitFrom(s, ch, j + 1)

split(s, ch) == SplitFrom(s, ch, 1)

\* String.prototype.replace(lit, rep) with a string pattern: the first
\* occurrence only
replace(s, lit, rep) ==
    LET p == IndexFrom(s, lit, 1)
    IN  IF p = 0 THEN s
        ELSE SubSeq(s, 1, p - 1) \o rep \o SubSeq(s, p + Len(lit), Len(s))

\* Array.prototype.join
RECURSIVE join(_, _)
join(parts, sep) ==
    IF parts = <<>> THEN <<>>
    ELSE IF Len(parts) = 1 THEN parts[1]
    ELSE parts[1] \o sep \o join(Tail(parts), sep)

\* lines = text.split('\n').map(line => line.trim()).filter(line => line)
TrimmedLines(text) ==
    LET raw == split(text, "\n")
        trimmed == [i \in 1..Len(raw) |-> trim(raw[i])]
    IN  SelectSeq(trimmed, LAMBDA l : l # <<>>)

-----------------------------------------------------------------------------
(* PrismaParser                                                             *)

\* PrismaParser.isPrimitiveType
isPrimitiveType(type) ==
    type \in { <<"S","t","r","i","n","g">>, <<"I","n","t">>, <<"F","l","o","a","t">>, <<"B","o","o","l","e","a","n">>, <<"D","a","t","e","T","i","m","e">>,
               <<"J","s","o","n">>, <<"B","y","t","e","s">>, <<"D","e","c","i","m","a","l">>, <<"B","i","g","I","n","t">> }

\* "." matches no line terminator: (.*)?$ matches from position i to the end
\* of s only when none is left
LineTerminator == {"\n", "\r", "U+2028", "U+2029"}

NoLineBreak(s, i) == SkipNotIn(s, i, LineTerminator) > Len(s)

\* line.match(/^(\w+)\s+(\w+(\[\])?|\w+\?)\s*(.*)?$/) on a trimmed line.
\* The first alternative \w+(\[\])? is tried first: \s* takes the white
\* space after it, line breaks included, and (.*)?$ the rest of the line, so
\* a "?" after the type starts the attributes.  It fails only when a line
\* break is left after that white space, and then the second alternative
\* \w+\? is tried: the type holds the "?", and the rest must again reach the
\* end of the line without a line break.
FieldMatch(line) ==
    LET n == SkipIn(line, 1, WordChar)
        a == SkipIn(line, n, Space)
        t == SkipIn(line, a, WordChar)
        u == IF IsAt(line, t, <<"[","]">>) THEN t + 2 ELSE t
        b == SkipIn(line, u, Space)
        q == SkipIn(line, t + 1, Space)
    IN  IF n > 1 /\ a > n /\ t > a /\ NoLineBreak(line, b)
        THEN [ok |-> TRUE,
              fieldName |-> SubSeq(line, 1, n - 1),
              fieldType |-> SubSeq(line, a, u - 1),
              attributes |-> SubSeq(line, b, Len(line))]
        ELSE IF n > 1 /\ a > n /\ t > a /\ IsAt(line, t, <<"?">>) /\ NoLineBreak(line, q)
        THEN [ok |-> TRUE,
              fieldName |-> SubSeq(line, 1, n - 1),
              fieldType |-> SubSeq(line, a, t),
              attributes |-> SubSeq(line, q, Len(line))]
        ELSE [ok |-> FALSE, fieldName |-> <<>>, fieldType |-> <<>>,
              attributes |-> <<>>]

\* fieldType.replace('[]', '').replace('?', '')
StripType(fieldType) == replace(replace(fieldType, <<"[","]">>, <<>>), <<"?">>, <<>>)

\* Variant: a relation marker or an object type is enough
IsConnectedFlag(hasRelation, isObjectType) == hasRelation \/ isObjectType

\* hasRelation && isObjectType (PrismaParser.parseFields, isRelation)
IsRelationFlag(hasRelation, isObjectType) == hasRelation /\ isObjectType

\* Variant: the list mark is taken off the type before it is looked up
IsForeignKeyStripped(fieldName, fieldType) ==
    isPrimitiveType(StripType(fieldType)) /\ endsWith(fieldName, <<"I","d">>)

\* this.isPrimitiveType(fieldType) && fieldName.endsWith('Id')
IsForeignKeyFlag(fieldName, fieldType) ==
    isPrimitiveType(fieldType) /\ endsWith(fieldName, <<"I","d">>)

\* Variant: the uniqueness marker is not looked at
IsPrimaryKeyByMarker(fieldName, fieldType, attributes) ==
    \/ includes(attributes, <<"@","i","d">>)
    \/ (fieldName = <<"i","d">> /\ isPrimitiveType(fieldType))

\* the isPrimaryKey expression of PrismaParser.parseFields
IsPrimaryKeyFlag(fieldName, fieldType, attributes) ==
    \/ includes(attributes, <<"@","i","d">>)
    \/ (fieldName = <<"i","d">> /\ isPrimitiveType(fieldType))
    \/ (includes(toLowerCase(fieldName), <<"i","d">>) /\ includes(attributes, <<"@","u","n","i","q","u","e">>))

\* the object pushed for one matched line
FieldOf(m) ==
    LET hasRelation == includes(m.attributes, <<"@","r","e","l","a","t","i","o","n">>)
        isObjectType == ~isPrimitiveType(StripType(m.fieldType))
    IN  [name |-> m.fieldName,
         type |-> m.fieldType,
         hasConnections |-> hasRelation \/ isObjectType,
         isForeignKey |-> IsForeignKeyFlag(m.fieldName, m.fieldType),
         isRelation |-> IsRelationFlag(hasRelation, isObjectType),
         isPrimaryKey |-> IsPrimaryKeyFlag(m.fieldName, m.fieldType, m.attributes)]

\* the loop of parseFields over the trimmed, non-empty lines: comment and
\* block-attribute lines are skipped, a line the pattern matches pushes a field
RECURSIVE FieldsOfLines(_)
FieldsOfLines(lines) ==
    IF lines = <<>> THEN <<>>
    ELSE LET line == Head(lines)
             m == FieldMatch(line)
         IN  IF startsWith(line, <<"/","/">>) \/ startsWith(line, <<"@","@">>)
             THEN FieldsOfLines(Tail(lines))
             ELSE IF m.ok THEN <<FieldOf(m)>> \o FieldsOfLines(Tail(lines))
             ELSE FieldsOfLines(Tail(lines))

\* PrismaParser.parseFields
parseFields(modelBody) == FieldsOfLines(TrimmedLines(modelBody))

\* attributes.match(/<key>\s*\[([^\]]+)\]/), key being "fields:" or
\* "references:": the first group of the leftmost match, or no match
RECURSIVE ListArgFrom(_, _, _)
ListArgFrom(attributes, key, from) ==
    LET p == IndexFrom(attributes, key, from)
        a == SkipIn(attributes, p + Len(key), Space)
        e == SkipNotIn(attributes, a + 1, {"]"})
    IN  IF p = 0 THEN [ok |-> FALSE, group |-> <<>>]
        ELSE IF IsAt(attributes, a, <<"[">>) /\ e > a + 1 /\ e <= Len(attributes)
        THEN [ok |-> TRUE, group |-> SubSeq(attributes, a + 1, e - 1)]
        ELSE ListArgFrom(attributes, key, p + 1)

\* Variant: the pattern is written with one blank after the key
\* (/fields: \[([^\]]+)\]/), so "fields:[x]" is not matched
ListArgSpaced(attributes, key) ==
    IF includes(attributes, key \o <<" ","[">>) THEN ListArgFrom(attributes, key, 1)
    ELSE [ok |-> FALSE, group |-> <<>>]

ListArg(attributes, key) == ListArgFrom(attributes, key, 1)

\* line.match(/^(\w+)\s+(\w+)\s+@relation\(fields:/) of isJunctionTable:
\* the type group of a matching line, <<>> when the line does not match
JunctionLineType(line) ==
    LET n == SkipIn(line, 1, WordChar)
        a == SkipIn(line, n, Space)
        t == SkipIn(line, a, WordChar)
        b == SkipIn(line, t, Space)
    IN  IF n > 1 /\ a > n /\ t > a /\ b > t /\ IsAt(line, b, <<"@","r","e","l","a","t","i","o","n","(","f","i","e","l","d","s",":">>)
        THEN SubSeq(line, a, t - 1)
        ELSE <<>>

RECURSIVE RelatedModelsOf(_)
RelatedModelsOf(lines) ==
    IF lines = <<>> THEN <<>>
    ELSE LET fieldType == JunctionLineType(Head(lines))
         IN  IF fieldType # <<>> /\ ~isPrimitiveType(fieldType)
             THEN <<fieldType>> \o RelatedModelsOf(Tail(lines))
             ELSE RelatedModelsOf(Tail(lines))

\* Variant: the count of foreign-key fields is not looked at
isJunctionTableByRelations(model) ==
    [isJunction |-> Len(RelatedModelsOf(TrimmedLines(model.body))) >= 2,
     relatedModels |-> RelatedModelsOf(TrimmedLines(model.body))]

\* PrismaParser.isJunctionTable; model is [name, body, fields]
isJunctionTable(model) ==
    LET foreignKeyFields == SelectSeq(model.fields, LAMBDA f : f.isForeignKey)
        relatedModels == RelatedModelsOf(TrimmedLines(model.body))
    IN  IF Len(foreignKeyFields) >= 2
        THEN [isJunction |-> Len(relatedModels) >= 2, relatedModels |-> relatedModels]
        ELSE [isJunction |-> FALSE, relatedModels |-> <<>>]

\* allModels.find(m => m.name === name): the first model of that name
FindModel(allModels, name) ==
    LET hits == {i \in 1..Len(allModels) : allModels[i].name = name}
    IN  IF hits = {} THEN 0 ELSE Min(hits)

InSeq(x, seq) == \E i \in 1..Len(seq) : seq[i] = x

\* the characters the source file holds between foreignKey and references
\* in the N:1 label
ArrowText == <<" ", "â", "U+2020", "U+2019", " ">>

\* "junctionInfo.isJunction && junctionInfo.relatedModels.includes(targetModel)"
IsJunctionField(junctionInfo, targetModel) ==
    junctionInfo.isJunction /\ InSeq(targetModel, junctionInfo.relatedModels)

\* Variant: the declared default ('many-to-one') is kept where the chain's
\* last branch should set one-to-one
SyntaxTypeDefaulted(viaJunction, isArray, targetIsJunction, hasRelationFields) ==
    IF viaJunction THEN "many-to-many"
    ELSE IF isArray
    THEN (IF targetIsJunction THEN "many-to-many" ELSE "one-to-many")
    ELSE "many-to-one"

\* Variant: the target of a list field is not looked up among the models
SyntaxTypeLocal(viaJunction, isArray, targetIsJunction, hasRelationFields) ==
    IF viaJunction THEN "many-to-many"
    ELSE IF isArray THEN "one-to-many"
    ELSE IF hasRelationFields THEN "many-to-one"
    ELSE "one-to-one"

\* the relation type decided by the if / else-if chain on the field's syntax
SyntaxType(viaJunction, isArray, targetIsJunction, hasRelationFields) ==
    IF viaJunction THEN "many-to-many"
    ELSE IF isArray
    THEN (IF targetIsJunction THEN "many-to-many" ELSE "one-to-many")
    ELSE IF hasRelationFields THEN "many-to-one"
    ELSE "one-to-one"

\* Variant: the junction model's own fields get the label of a list field
SyntaxLabelUnnamed(fieldName, modelName, viaJunction, isArray, targetIsJunction) ==
    IF viaJunction \/ (isArray /\ targetIsJunction) THEN fieldName \o <<" ","(","M",":","N",")">>
    ELSE IF isArray THEN fieldName \o <<" ","(","1",":","N",")">>
    ELSE fieldName

\* the label set by the same chain
SyntaxLabel(fieldName, modelName, viaJunction, isArray, targetIsJunction) ==
    IF viaJunction
    THEN fieldName \o <<" ","(","M",":","N"," ","v","i","a"," ">> \o modelName \o <<")">>
    ELSE IF isArray
    THEN (IF targetIsJunction THEN fieldName \o <<" ","(","M",":","N",")">>
          ELSE fieldName \o <<" ","(","1",":","N",")">>)
    ELSE fieldName

\* Variant: the type decided by the chain is kept when the attribute lists
\* foreign-key columns
FinalTypeKept(hasRelation, fieldsMatched, syntaxType) == syntaxType

\* "if (fieldsMatch) { ...; relationType = 'many-to-one'; }" inside
\* "if (attributes.includes('@relation'))"
FinalType(hasRelation, fieldsMatched, syntaxType) ==
    IF hasRelation /\ fieldsMatched THEN "many-to-one" ELSE syntaxType

\* the label after "Create a more descriptive label with relation type"
FinalLabel(fieldName, hasRelation, foreignKey, references, relationType, syntaxLabel) ==
    IF ~hasRelation THEN syntaxLabel
    ELSE IF foreignKey # <<>> /\ references # <<>>
    THEN foreignKey \o ArrowText \o references \o <<" ","(","N",":","1",")">>
    ELSE IF relationType = "one-to-many" THEN fieldName \o <<" ","(","1",":","N",")">>
    ELSE IF relationType = "one-to-one" THEN fieldName \o <<" ","(","1",":","1",")">>
    ELSE syntaxLabel

\* Variant: the source handle is written with the target model's name
RelationOfByTarget(modelName, m, junctionInfo, allModels) ==
    LET fieldName == m.fieldName
        attributes == m.attributes
        targetModel == StripType(m.fieldType)
        isArray == includes(m.fieldType, <<"[","]">>)
        hasRelationFields == includes(attributes, <<"f","i","e","l","d","s",":">>)
        t == FindModel(allModels, targetModel)
        targetIsJunction ==
            IF t = 0 THEN FALSE ELSE isJunctionTable(allModels[t]).isJunction
        viaJunction == IsJunctionField(junctionInfo, targetModel)
        hasRelation == includes(attributes, <<"@","r","e","l","a","t","i","o","n">>)
        fieldsMatch == ListArg(attributes, <<"f","i","e","l","d","s",":">>)
        referencesMatch == ListArg(attributes, <<"r","e","f","e","r","e","n","c","e","s",":">>)
        foreignKey ==
            IF hasRelation /\ fieldsMatch.ok THEN trim(fieldsMatch.group) ELSE <<>>
        references ==
            IF hasRelation /\ referencesMatch.ok THEN trim(referencesMatch.group)
            ELSE <<>>
        relationType ==
            FinalType(hasRelation, fieldsMatch.ok,
                      SyntaxType(viaJunction, isArray, targetIsJunction, hasRelationFields))
    IN  [source |-> targetModel \o <<"-">> \o fieldName \o <<"-","s","o","u","r","c","e">>,
         target |-> targetModel \o <<"-","t","a","r","g","e","t">>,
         name |-> fieldName,
         label |-> FinalLabel(fieldName, hasRelation, foreignKey, references, relationType,
                              SyntaxLabel(fieldName, modelName, viaJunction, isArray,
                                          targetIsJunction)),
         foreignKey |-> foreignKey,
         references |-> references,
         relationType |-> relationType]

\* the relation parseRelations pushes for one matched line whose target is
\* not a primitive type
RelationOf(modelName, m, junctionInfo, allModels) ==
    LET fieldName == m.fieldName
        attributes == m.attributes
        targetModel == StripType(m.fieldType)
        isArray == includes(m.fieldType, <<"[","]">>)
        hasRelationFields == includes(attributes, <<"f","i","e","l","d","s",":">>)
        t == FindModel(allModels, targetModel)
        targetIsJunction ==
            IF t = 0 THEN FALSE ELSE isJunctionTable(allModels[t]).isJunction
        viaJunction == IsJunctionField(junctionInfo, targetModel)
        hasRelation == includes(attributes, <<"@","r","e","l","a","t","i","o","n">>)
        fieldsMatch == ListArg(attributes, <<"f","i","e","l","d","s",":">>)
        referencesMatch == ListArg(attributes, <<"r","e","f","e","r","e","n","c","e","s",":">>)
        foreignKey ==
            IF hasRelation /\ fieldsMatch.ok THEN trim(fieldsMatch.group) ELSE <<>>
        references ==
            IF hasRelation /\ referencesMatch.ok THEN trim(referencesMatch.group)
            ELSE <<>>
        relationType ==
            FinalType(hasRelation, fieldsMatch.ok,
                      SyntaxType(viaJunction, isArray, targetIsJunction, hasRelationFields))
    IN  [source |-> modelName \o <<"-">> \o fieldName \o <<"-","s","o","u","r","c","e">>,
         target |-> targetModel \o <<"-","t","a","r","g","e","t">>,
         name |-> fieldName,
         label |-> FinalLabel(fieldName, hasRelation, foreignKey, references, relationType,
                              SyntaxLabel(fieldName, modelName, viaJunction, isArray,
                                          targetIsJunction)),
         foreignKey |-> foreignKey,
         references |-> references,
         relationType |-> relationType]

RECURSIVE RelationsOfLines(_, _, _, _)
RelationsOfLines(modelName, lines, junctionInfo, allModels) ==
    IF lines = <<>> THEN <<>>
    ELSE LET m == FieldMatch(Head(lines))
             rest == RelationsOfLines(modelName, Tail(lines), junctionInfo, allModels)
         IN  IF /\ m.ok
                /\ \/ includes(m.attributes, <<"@","r","e","l","a","t","i","o","n">>)
                   \/ ~isPrimitiveType(StripType(m.fieldType))
                /\ ~isPrimitiveType(StripType(m.fieldType))
             THEN <<RelationOf(modelName, m, junctionInfo, allModels)>> \o rest
             ELSE rest

\* PrismaParser.parseRelations
parseRelations(modelName, modelBody, allModels) ==
    LET c == FindModel(allModels, modelName)
        junctionInfo ==
            IF c # 0 THEN isJunctionTable(allModels[c])
            ELSE [isJunction |-> FALSE, relatedModels |-> <<>>]
    IN  RelationsOfLines(modelName, TrimmedLines(modelBody), junctionInfo, allModels)

\* One exec of /model\s+(\w+)\s*{([^}]*)}/g or /enum\s+(\w+)\s*{([^}]*)}/g
\* (keyword "model" or "enum") on text s with the match starting at p
BlockMatchAt(keyword, s, p) ==
    LET a == p + Len(keyword)
        b == SkipIn(s, a, Space)
        c == SkipIn(s, b, WordChar)
        d == SkipIn(s, c, Space)
        e == SkipNotIn(s, d + 1, {"}"})
    IN  IF IsAt(s, p, keyword) /\ b > a /\ c > b /\ IsAt(s, d, <<"{">>) /\ e <= Len(s)
        THEN [found |-> TRUE, name |-> SubSeq(s, b, c - 1),
              body |-> SubSeq(s, d + 1, e - 1), lastIndex |-> e]
        ELSE [found |-> FALSE, name |-> <<>>, body |-> <<>>, lastIndex |-> 0]

\* regex.exec(s) of a global regular expression whose lastIndex is given:
\* the leftmost match at or after lastIndex (counted in characters already
\* consumed); a failed exec leaves lastIndex 0
RECURSIVE BlockExec(_, _, _)
BlockExec(keyword, s, lastIndex) ==
    LET p == IndexFrom(s, keyword, lastIndex + 1)
        m == BlockMatchAt(keyword, s, p)
    IN  IF p = 0 THEN [found |-> FALSE, name |-> <<>>, body |-> <<>>, lastIndex |-> 0]
        ELSE IF m.found THEN m
        ELSE BlockExec(keyword, s, p)

ModelKeyword == <<"m","o","d","e","l">>

EnumKeyword == <<"e","n","u","m">>

\* the entry pushed on allModels for one match of the model pattern
ModelEntry(m) == [name |-> m.name, body |-> m.body, fields |-> parseFields(m.body)]

\* the entry pushed on models
ModelOf(entry) ==
    [name |-> entry.name,
     fields |-> entry.fields,
     isChild |-> \E i \in 1..Len(entry.fields) :
                    entry.fields[i].hasConnections /\ endsWith(entry.fields[i].name, <<"I","d">>)]

\* the values of one enum body
EnumValues(enumBody) ==
    LET lines == SelectSeq(TrimmedLines(enumBody), LAMBDA l : ~startsWith(l, <<"/","/">>))
    IN  [i \in 1..Len(lines) |-> SubSeq(lines[i], 1, SkipNotIn(lines[i], 1, Space) - 1)]

EnumOf(m) == [name |-> m.name, values |-> EnumValues(m.body)]

\* the while loop over modelRegex.exec, from a given lastIndex
RECURSIVE AllModelsFrom(_, _)
AllModelsFrom(s, lastIndex) ==
    LET m == BlockExec(ModelKeyword, s, lastIndex)
    IN  IF m.found THEN <<ModelEntry(m)>> \o AllModelsFrom(s, m.lastIndex) ELSE <<>>

RECURSIVE EnumsFrom(_, _)
EnumsFrom(s, lastIndex) ==
    LET m == BlockExec(EnumKeyword, s, lastIndex)
    IN  IF m.found THEN <<EnumOf(m)>> \o EnumsFrom(s, m.lastIndex) ELSE <<>>

\* Variant: the relations of each model are put in front of those already
\* collected (unshift for push)
RECURSIVE ConnectionsInFront(_, _)
ConnectionsInFront(allModels, i) ==
    IF i > Len(allModels) THEN <<>>
    ELSE ConnectionsInFront(allModels, i + 1)
         \o parseRelations(allModels[i].name, allModels[i].body, allModels)

\* the loop "for (const model of allModels) connections.push(...)"
RECURSIVE ConnectionsFrom(_, _)
ConnectionsFrom(allModels, i) ==
    IF i > Len(allModels) THEN <<>>
    ELSE parseRelations(allModels[i].name, allModels[i].body, allModels)
         \o ConnectionsFrom(allModels, i + 1)

\* PrismaParser.parse
parse(schemaContent) ==
    LET allModels == AllModelsFrom(schemaContent, 0)
    IN  [models |-> [i \in 1..Len(allModels) |-> ModelOf(allModels[i])],
         enums |-> EnumsFrom(schemaContent, 0),
         connections |-> ConnectionsFrom(allModels, 1)]

-----------------------------------------------------------------------------
(* Greedy pieces of the source's regular expressions.  Each takes a text   *)
(* and a position and gives the position after the piece, 0 when the piece *)
(* does not match (or the position given is already 0).  They are used     *)
(* only where no shorter repetition could make a failed match succeed.     *)

Quote == {"\"", "'"}

\* a literal
Lit(s, i, lit) == IF i # 0 /\ IsAt(s, i, lit) THEN i + Len(lit) ELSE 0

\* \s*
Sp0(s, i) == IF i = 0 THEN 0 ELSE SkipIn(s, i, Space)

\* \s+
Sp1(s, i) == IF i # 0 /\ SkipIn(s, i, Space) > i THEN SkipIn(s, i, Space) ELSE 0

\* \w+
W1(s, i) == IF i # 0 /\ SkipIn(s, i, WordChar) > i THEN SkipIn(s, i, WordChar) ELSE 0

\* ["']?
OptQ(s, i) == IF i # 0 /\ i <= Len(s) /\ s[i] \in Quote THEN i + 1 ELSE i

\* /<w1>\s+<w2>/i.test(s): w1 and w2 in upper case
RECURSIVE TwoWordsFrom(_, _, _, _)
TwoWordsFrom(u, w1, w2, from) ==
    LET p == IndexFrom(u, w1, from)
    IN  IF p = 0 THEN FALSE
        ELSE IF Lit(u, Sp1(u, p + Len(w1)), w2) # 0 THEN TRUE
        ELSE TwoWordsFrom(u, w1, w2, p + 1)

HasTwoWords(s, w1, w2) == TwoWordsFrom(Canonicalize(s), w1, w2, 1)

\* /<w>/i.test(s): w in upper case
HasWord(s, w) == includes(Canonicalize(s), w)

-----------------------------------------------------------------------------
(* SqlToPrismaConverter                                                     *)

\* sql.replace(/--.*$/gm, '')
RECURSIVE RemoveLineComments(_, _)
RemoveLineComments(s, i) ==
    LET p == IndexFrom(s, <<"-","-">>, i)
    IN  IF p = 0 THEN SubSeq(s, i, Len(s))
        ELSE SubSeq(s, i, p - 1)
             \o RemoveLineComments(s, SkipNotIn(s, p, LineTerminator))

\* .replace(/\/\*[\s\S]*?\*\//g, '')
RECURSIVE RemoveBlockComments(_, _)
RemoveBlockComments(s, i) ==
    LET p == IndexFrom(s, <<"/","*">>, i)
        q == IF p = 0 THEN 0 ELSE IndexFrom(s, <<"*","/">>, p + 2)
    IN  IF p = 0 \/ q = 0 THEN SubSeq(s, i, Len(s))
        ELSE SubSeq(s, i, p - 1) \o RemoveBlockComments(s, q + 2)

CleanSql(sql) == RemoveBlockComments(RemoveLineComments(sql, 1), 1)

\* the number of characters ch in s[i..j]
Count(s, i, j, ch) == Cardinality({k \in i..j : s[k] = ch})

\* Variant: every comma splits, whatever the depth
RECURSIVE SplitLoopAnyDepth(_, _, _, _, _)
SplitLoopAnyDepth(body, i, parts, start, depth) ==
    LET j == IndexFrom(body, <<",">>, i)
        current == SubSeq(body, start, Len(body))
    IN  IF j = 0
        THEN (IF trim(current) # <<>> THEN Append(parts, current) ELSE parts)
        ELSE SplitLoopAnyDepth(body, j + 1, Append(parts, SubSeq(body, start, j - 1)),
                               j + 1, depth)

\* SqlToPrismaConverter.splitTableBody: the loop over the characters, taken
\* from one comma to the next.  i is the next character to read, start the
\* first character of current, depth the counter before reading body[i].
\* Between two commas the counter moves by the "(" and ")" read; at a comma
\* read with depth 0 the current part is pushed, and any other character is
\* added to current.
RECURSIVE SplitLoop(_, _, _, _, _)
SplitLoop(body, i, parts, start, depth) ==
    LET j == IndexFrom(body, <<",">>, i)
        depth1 == depth + Count(body, i, j - 1, "(") - Count(body, i, j - 1, ")")
        current == SubSeq(body, start, Len(body))
    IN  IF j = 0
        THEN (IF trim(current) # <<>> THEN Append(parts, current) ELSE parts)
        ELSE IF depth1 = 0
        THEN SplitLoop(body, j + 1, Append(parts, SubSeq(body, start, j - 1)), j + 1, depth1)
        ELSE SplitLoop(body, j + 1, parts, start, depth1)

splitTableBody(body) == SplitLoop(body, 1, <<>>, 1, 0)

\* the part of tableRegex after CREATE\s+TABLE\s+(?:IF\s+NOT\s+EXISTS\s+)?,
\* that is ["']?(\w+)["']?\s*\(([\s\S]*?)\); from position i of s (u is s in
\* upper case): the lazy body ends at the first ");"
TableTail(s, i) ==
    LET n0 == OptQ(s, i)
        n1 == W1(s, n0)
        open == Lit(s, Sp0(s, OptQ(s, n1)), <<"(">>)
        close == IF open = 0 THEN 0 ELSE IndexFrom(s, <<")",";">>, open)
    IN  IF close = 0
        THEN [found |-> FALSE, tableName |-> <<>>, tableBody |-> <<>>, lastIndex |-> 0]
        ELSE [found |-> TRUE, tableName |-> SubSeq(s, n0, n1 - 1),
              tableBody |-> SubSeq(s, open, close - 1), lastIndex |-> close + 1]

\* tableRegex matched with the match starting at p
TableMatchAt(s, u, p) ==
    LET d == Sp1(u, Lit(u, Sp1(u, Lit(u, p, <<"C","R","E","A","T","E">>)), <<"T","A","B","L","E">>))
        g == Sp1(u, Lit(u, Sp1(u, Lit(u, Sp1(u, Lit(u, d, <<"I","F">>)), <<"N","O","T">>)), <<"E","X","I","S","T","S">>))
        withIf == IF g = 0 THEN TableTail(s, 0) ELSE TableTail(s, g)
    IN  IF d = 0 THEN TableTail(s, 0)
        ELSE IF withIf.found THEN withIf
        ELSE TableTail(s, d)

\* tableRegex.exec(cleanedSql) with the regular expression's lastIndex
RECURSIVE TableExecFrom(_, _, _)
TableExecFrom(s, u, lastIndex) ==
    LET p == IndexFrom(u, <<"C","R","E","A","T","E">>, lastIndex + 1)
        m == TableMatchAt(s, u, p)
    IN  IF p = 0 THEN TableTail(s, 0)
        ELSE IF m.found THEN m
        ELSE TableExecFrom(s, u, p)

TableExec(s, lastIndex) == TableExecFrom(s, Canonicalize(s), lastIndex)

\* trimmed.match(/FOREIGN\s+KEY\s*\(["']?(\w+)["']?\)\s*REFERENCES\s+["']?(\w+)["']?\s*\(["']?(\w+)["']?\)/i)
\* with the match starting at p
ForeignKeyAt(s, u, p) ==
    LET c0 == OptQ(u, Lit(u, Sp0(u, Lit(u, Sp1(u, Lit(u, p, <<"F","O","R","E","I","G","N">>)), <<"K","E","Y">>)), <<"(">>))
        c1 == W1(u, c0)
        t0 == OptQ(u, Sp1(u, Lit(u, Sp0(u, Lit(u, OptQ(u, c1), <<")">>)), <<"R","E","F","E","R","E","N","C","E","S">>)))
        t1 == W1(u, t0)
        r0 == OptQ(u, Lit(u, Sp0(u, OptQ(u, t1)), <<"(">>))
        r1 == W1(u, r0)
        end == Lit(u, OptQ(u, r1), <<")">>)
    IN  IF end = 0 THEN [ok |-> FALSE, column |-> <<>>, refTable |-> <<>>, refColumn |-> <<>>]
        ELSE [ok |-> TRUE, column |-> SubSeq(s, c0, c1 - 1),
              refTable |-> SubSeq(s, t0, t1 - 1), refColumn |-> SubSeq(s, r0, r1 - 1)]

RECURSIVE ForeignKeyFrom(_, _, _)
ForeignKeyFrom(s, u, from) ==
    LET p == IndexFrom(u, <<"F","O","R","E","I","G","N">>, from)
        m == ForeignKeyAt(s, u, p)
    IN  IF p = 0 THEN ForeignKeyAt(s, u, 0)
        ELSE IF m.ok THEN m
        ELSE ForeignKeyFrom(s, u, p + 1)

ForeignKeyMatch(trimmed) == ForeignKeyFrom(trimmed, Canonicalize(trimmed), 1)

\* /(?:PRIMARY\s+KEY|UNIQUE|CHECK|CONSTRAINT)/i.test(trimmed)
\*   && !trimmed.match(/^["']?\w+["']?\s+/)
IsTableConstraint(trimmed) ==
    /\ \/ HasTwoWords(trimmed, <<"P","R","I","M","A","R","Y">>, <<"K","E","Y">>)
       \/ HasWord(trimmed, <<"U","N","I","Q","U","E">>)
       \/ HasWord(trimmed, <<"C","H","E","C","K">>)
       \/ HasWord(trimmed, <<"C","O","N","S","T","R","A","I","N","T">>)
    /\ Sp1(trimmed, OptQ(trimmed, W1(trimmed, OptQ(trimmed, 1)))) = 0

\* [A-Z][A-Z0-9_]*(?:\([^)]+\))? (case-insensitive) from position i
DataTypeEnd(s, i) ==
    LET w == IF i # 0 /\ i <= Len(s) /\ s[i] \in (Lower \cup Upper)
             THEN SkipIn(s, i + 1, WordChar) ELSE 0
        e == SkipNotIn(s, w + 1, {")"})
    IN  IF w # 0 /\ IsAt(s, w, <<"(">>) /\ e > w + 1 /\ e <= Len(s) THEN e + 1 ELSE w

\* trimmed.match(/^["']?(\w+)["']?\s+([A-Z][A-Z0-9_]*(?:\([^)]+\))?)\s*(.*)?$/i)
ColumnMatch(trimmed) ==
    LET n0 == OptQ(trimmed, 1)
        n1 == W1(trimmed, n0)
        t0 == Sp1(trimmed, OptQ(trimmed, n1))
        t1 == DataTypeEnd(trimmed, t0)
        c0 == Sp0(trimmed, t1)
    IN  IF c0 # 0 /\ NoLineBreak(trimmed, c0)
        THEN [ok |-> TRUE, columnName |-> SubSeq(trimmed, n0, n1 - 1),
              dataType |-> SubSeq(trimmed, t0, t1 - 1),
              constraints |-> SubSeq(trimmed, c0, Len(trimmed))]
        ELSE [ok |-> FALSE, columnName |-> <<>>, dataType |-> <<>>, constraints |-> <<>>]

\* constraints.match(/DEFAULT\s+(['"]?)([^,\s]+)\1/i) with the match starting
\* at p: with an opening quote the second group is cut at the last quote of
\* the same kind inside the run, and without one (or when none closes it)
\* the group is the whole run
DefaultAt(s, u, p) ==
    LET a == Sp1(u, Lit(u, p, <<"D","E","F","A","U","L","T">>))
        r == SkipNotIn(s, a, Space \cup {","})
        closing == {k \in (a + 2)..(r - 1) : s[k] = s[a]}
        k == CHOOSE x \in closing : \A y \in closing : y <= x
    IN  IF a = 0 \/ r = a THEN [ok |-> FALSE, value |-> <<>>]
        ELSE IF s[a] \in Quote /\ closing # {}
        THEN [ok |-> TRUE, value |-> SubSeq(s, a + 1, k - 1)]
        ELSE [ok |-> TRUE, value |-> SubSeq(s, a, r - 1)]

RECURSIVE DefaultFrom(_, _, _)
DefaultFrom(s, u, from) ==
    LET p == IndexFrom(u, <<"D","E","F","A","U","L","T">>, from)
        m == DefaultAt(s, u, p)
    IN  IF p = 0 THEN [ok |-> FALSE, value |-> <<>>]
        ELSE IF m.ok THEN m
        ELSE DefaultFrom(s, u, p + 1)

DefaultMatch(constraints) == DefaultFrom(constraints, Canonicalize(constraints), 1)

\* Variant: UNIQUE is looked for only when NOT NULL was not found
ColumnOfChained(m) ==
    LET nullable == ~HasTwoWords(m.constraints, <<"N","O","T">>, <<"N","U","L","L">>)
        primaryKey == HasTwoWords(m.constraints, <<"P","R","I","M","A","R","Y">>, <<"K","E","Y">>)
        defaultMatch == DefaultMatch(m.constraints)
    IN  [name |-> m.columnName,
         type |-> m.dataType,
         nullable |-> ~primaryKey /\ nullable,
         primaryKey |-> primaryKey,
         unique |-> nullable /\ HasWord(m.constraints, <<"U","N","I","Q","U","E">>),
         hasDefault |-> defaultMatch.ok,
         defaultValue |-> defaultMatch.value]

\* the column pushed for a matched column definition; hasDefault FALSE is
\* defaultValue undefined
ColumnOf(m) ==
    LET nullable == ~HasTwoWords(m.constraints, <<"N","O","T">>, <<"N","U","L","L">>)
        primaryKey == HasTwoWords(m.constraints, <<"P","R","I","M","A","R","Y">>, <<"K","E","Y">>)
        unique == HasWord(m.constraints, <<"U","N","I","Q","U","E">>)
        defaultMatch == DefaultMatch(m.constraints)
    IN  [name |-> m.columnName,
         type |-> m.dataType,
         nullable |-> ~primaryKey /\ nullable,
         primaryKey |-> primaryKey,
         unique |-> unique,
         hasDefault |-> defaultMatch.ok,
         defaultValue |-> defaultMatch.value]

\* the loop of parseSqlTables over the fragments of one table body
RECURSIVE TableLoop(_, _, _, _)
TableLoop(lines, i, columns, foreignKeys) ==
    IF i > Len(lines) THEN [columns |-> columns, foreignKeys |-> foreignKeys]
    ELSE LET trimmed == trim(lines[i])
             fkMatch == ForeignKeyMatch(trimmed)
             columnMatch == ColumnMatch(trimmed)
         IN  IF trimmed = <<>> THEN TableLoop(lines, i + 1, columns, foreignKeys)
             ELSE IF HasTwoWords(trimmed, <<"F","O","R","E","I","G","N">>, <<"K","E","Y">>)
             THEN TableLoop(lines, i + 1, columns,
                            IF fkMatch.ok
                            THEN Append(foreignKeys,
                                        [column |-> fkMatch.column,
                                         refTable |-> fkMatch.refTable,
                                         refColumn |-> fkMatch.refColumn])
                            ELSE foreignKeys)
             ELSE IF IsTableConstraint(trimmed)
             THEN TableLoop(lines, i + 1, columns, foreignKeys)
             ELSE IF columnMatch.ok
             THEN TableLoop(lines, i + 1, Append(columns, ColumnOf(columnMatch)),
                            foreignKeys)
             ELSE TableLoop(lines, i + 1, columns, foreignKeys)

\* the table pushed for one match of tableRegex
TableOf(m) ==
    LET r == TableLoop(splitTableBody(m.tableBody), 1, <<>>, <<>>)
    IN  [name |-> m.tableName, columns |-> r.columns, foreignKeys |-> r.foreignKeys]

RECURSIVE TablesFrom(_, _)
TablesFrom(cleanedSql, lastIndex) ==
    LET m == TableExec(cleanedSql, lastIndex)
    IN  IF m.found THEN <<TableOf(m)>> \o TablesFrom(cleanedSql, m.lastIndex)
        ELSE <<>>

\* SqlToPrismaConverter.parseSqlTables
parseSqlTables(sql) == TablesFrom(CleanSql(sql), 0)

\* SqlToPrismaConverter.mapSqlTypeToPrisma
mapSqlTypeToPrisma(sqlType) ==
    LET type == split(toUpperCase(sqlType), "(")[1]
    IN  CASE type \in {<<"I","N","T">>, <<"I","N","T","E","G","E","R">>, <<"S","M","A","L","L","I","N","T">>, <<"T","I","N","Y","I","N","T">>} -> <<"I","n","t">>
          [] type = <<"B","I","G","I","N","T">> -> <<"B","i","g","I","n","t">>
          [] type \in {<<"V","A","R","C","H","A","R">>, <<"C","H","A","R">>, <<"T","E","X","T">>, <<"L","O","N","G","T","E","X","T">>, <<"M","E","D","I","U","M","T","E","X","T">>} -> <<"S","t","r","i","n","g">>
          [] type \in {<<"D","E","C","I","M","A","L">>, <<"N","U","M","E","R","I","C">>} -> <<"D","e","c","i","m","a","l">>
          [] type \in {<<"F","L","O","A","T">>, <<"D","O","U","B","L","E">>, <<"R","E","A","L">>} -> <<"F","l","o","a","t">>
          [] type \in {<<"D","A","T","E">>, <<"D","A","T","E","T","I","M","E">>, <<"T","I","M","E","S","T","A","M","P">>, <<"T","I","M","E">>} -> <<"D","a","t","e","T","i","m","e">>
          [] type \in {<<"B","O","O","L","E","A","N">>, <<"B","O","O","L">>} -> <<"B","o","o","l","e","a","n">>
          [] type \in {<<"J","S","O","N">>, <<"J","S","O","N","B">>} -> <<"J","s","o","n">>
          [] type \in {<<"B","L","O","B">>, <<"B","Y","T","E","A">>} -> <<"B","y","t","e","s">>
          [] OTHER -> <<"S","t","r","i","n","g">>

\* word.charAt(0).toUpperCase() + word.slice(1).toLowerCase()
Capitalize(word) ==
    IF word = <<>> THEN <<>>
    ELSE toUpperCase(<<word[1]>>) \o toLowerCase(SubSeq(word, 2, Len(word)))

\* str.split(sep).map(Capitalize).join(''), for the separators in seps
RECURSIVE PascalFrom(_, _, _)
PascalFrom(str, seps, i) ==
    LET j == SkipNotIn(str, i, seps)
    IN  IF j > Len(str) THEN Capitalize(SubSeq(str, i, Len(str)))
        ELSE Capitalize(SubSeq(str, i, j - 1)) \o PascalFrom(str, seps, j + 1)

\* SqlToPrismaConverter.toPascalCase
SqlToPascalCase(str) == PascalFrom(str, {"_"}, 1)

GeneratorBlock == <<"g","e","n","e","r","a","t","o","r"," ","c","l","i","e","n","t"," ","{","\n"," "," ","p","r","o","v","i","d","e","r"," ","="," ","\"","p","r","i","s","m","a","-","c","l","i","e","n","t","-","j","s","\"","\n","}","\n","\n">>

DatasourceBlock ==
    <<"d","a","t","a","s","o","u","r","c","e"," ","d","b"," ","{","\n"," "," ","p","r","o","v","i","d","e","r"," ","="," ","\"","p","o","s","t","g","r","e","s","q","l","\"","\n"," "," ","u","r","l"," "," "," "," "," "," ","="," ","e","n","v","(","\"","D","A","T","A","B","A","S","E","_","U","R","L","\"",")","\n","}","\n","\n">>

SqlHeader == <<"/","/"," ","A","u","t","o","-","g","e","n","e","r","a","t","e","d"," ","P","r","i","s","m","a"," ","s","c","h","e","m","a"," ","f","r","o","m"," ","S","Q","L","\n","\n">> \o GeneratorBlock \o DatasourceBlock

\* Variant: the uniqueness marker and the default are added to a primary key too
SqlColumnAttributesOfAll(column) ==
    LET lower == toLowerCase(column.defaultValue)
    IN  (IF column.primaryKey THEN << <<"@","i","d"," ","@","d","e","f","a","u","l","t","(","a","u","t","o","i","n","c","r","e","m","e","n","t","(",")",")">> >> ELSE <<>>)
        \o (IF column.unique THEN << <<"@","u","n","i","q","u","e">> >> ELSE <<>>)
        \o (IF column.hasDefault /\ column.defaultValue # <<>>
            THEN (IF lower = <<"n","o","w","(",")">> \/ lower = <<"c","u","r","r","e","n","t","_","t","i","m","e","s","t","a","m","p">>
                  THEN << <<"@","d","e","f","a","u","l","t","(","n","o","w","(",")",")">> >>
                  ELSE IF lower = <<"t","r","u","e">> \/ lower = <<"f","a","l","s","e">>
                  THEN << <<"@","d","e","f","a","u","l","t","(">> \o lower \o <<")">> >>
                  ELSE <<>>)
            ELSE <<>>)

\* the attributes array of one column in generatePrismaSchema
SqlColumnAttributes(column) ==
    LET lower == toLowerCase(column.defaultValue)
    IN  (IF column.primaryKey THEN << <<"@","i","d"," ","@","d","e","f","a","u","l","t","(","a","u","t","o","i","n","c","r","e","m","e","n","t","(",")",")">> >> ELSE <<>>)
        \o (IF column.unique /\ ~column.primaryKey THEN << <<"@","u","n","i","q","u","e">> >> ELSE <<>>)
        \o (IF column.hasDefault /\ column.defaultValue # <<>> /\ ~column.primaryKey
            THEN (IF lower = <<"n","o","w","(",")">> \/ lower = <<"c","u","r","r","e","n","t","_","t","i","m","e","s","t","a","m","p">>
                  THEN << <<"@","d","e","f","a","u","l","t","(","n","o","w","(",")",")">> >>
                  ELSE IF lower = <<"t","r","u","e">> \/ lower = <<"f","a","l","s","e">>
                  THEN << <<"@","d","e","f","a","u","l","t","(">> \o lower \o <<")">> >>
                  ELSE <<>>)
            ELSE <<>>)

\* the line generatePrismaSchema adds for one column
SqlColumnLine(column) ==
    LET prismaType == mapSqlTypeToPrisma(column.type)
        nullable == IF column.nullable /\ ~column.primaryKey THEN <<"?">> ELSE <<>>
        attributes == SqlColumnAttributes(column)
    IN  <<" "," ">> \o column.name \o <<" ">> \o prismaType \o nullable
        \o (IF Len(attributes) > 0 THEN <<" ">> \o join(attributes, <<" ">>) ELSE <<>>)
        \o <<"\n">>

\* the line generatePrismaSchema adds for one foreign key
SqlForeignKeyLine(fk) ==
    <<" "," ">> \o fk.refTable \o <<" ">> \o SqlToPascalCase(fk.refTable)
    \o <<" ","@","r","e","l","a","t","i","o","n","(","f","i","e","l","d","s",":"," ","[">> \o fk.column \o <<"]",","," ","r","e","f","e","r","e","n","c","e","s",":"," ","[">> \o fk.refColumn
    \o <<"]",")","\n">>

SqlModelText(table) ==
    <<"m","o","d","e","l"," ">> \o SqlToPascalCase(table.name) \o <<" ","{","\n">>
    \o ConcatAll([i \in 1..Len(table.columns) |-> SqlColumnLine(table.columns[i])])
    \o ConcatAll([i \in 1..Len(table.foreignKeys) |-> SqlForeignKeyLine(table.foreignKeys[i])])
    \o <<"}","\n","\n">>

\* SqlToPrismaConverter.generatePrismaSchema
generatePrismaSchema(tables) ==
    trim(SqlHeader \o ConcatAll([i \in 1..Len(tables) |-> SqlModelText(tables[i])]))

\* SqlToPrismaConverter.convert: nothing in parseSqlTables or
\* generatePrismaSchema throws for a string argument
SqlConvert(sqlContent) ==
    [threw |-> FALSE, message |-> <<>>,
     text |-> generatePrismaSchema(parseSqlTables(sqlContent))]

-----------------------------------------------------------------------------
(* JavaScript values, as JSON.parse returns them.  A value is a record     *)
(* with its type t and, but for null and undefined, its content v: the     *)
(* characters of a string, a number, a boolean, the sequence of an array's *)
(* elements, or a record from property names to values for an object.      *)

JStr(s) == [t |-> "string", v |-> s]

JNum(n) == [t |-> "number", v |-> n]

JBool(b) == [t |-> "boolean", v |-> b]

JArr(items) == [t |-> "array", v |-> items]

JObj(props) == [t |-> "object", v |-> props]

JNull == [t |-> "null"]

JUndefined == [t |-> "undefined"]

\* a property read throws a TypeError on these
Nullish(x) == x.t \in {"null", "undefined"}

\* x.key (x not nullish): an own property of an object, undefined elsewhere
Get(x, key) ==
    IF x.t = "object" /\ key \in DOMAIN x.v THEN x.v[key] ELSE JUndefined

\* ToBoolean
Truthy(x) ==
    CASE x.t \in {"null", "undefined"} -> FALSE
      [] x.t = "boolean" -> x.v
      [] x.t = "number" -> x.v # 0
      [] x.t = "string" -> x.v # <<>>
      [] OTHER -> TRUE

\* a || b
Or(a, b) == IF Truthy(a) THEN a ELSE b

\* x === false
IsFalse(x) == x.t = "boolean" /\ ~x.v

\* x === 'lit'
IsString(x, lit) == x.t = "string" /\ x.v = lit

\* Array.isArray
IsArray(x) == x.t = "array"

\* the decimal digits of a natural number
RECURSIVE Digits(_)
Digits(n) ==
    LET d == <<"0","1","2","3","4","5","6","7","8","9">>[(n % 10) + 1]
    IN  IF n < 10 THEN <<d>> ELSE Digits(n \div 10) \o <<d>>

\* Number.prototype.toString of an integer
NumberText(n) == IF n < 0 THEN <<"-">> \o Digits(0 - n) ELSE Digits(n)

\* The outcome of a piece of code that builds text or throws
Ok(text) == [threw |-> FALSE, message |-> <<>>, text |-> text]

Thrown(message) == [threw |-> TRUE, message |-> message, text |-> <<>>]

\* The message of an error the JavaScript engine raises is the engine's
\* text; one element stands for it
TypeErrorMessage == << "<TypeError message>" >>

SyntaxErrorMessage == << "<SyntaxError message>" >>

\* the pieces built one after the other: the first throw ends the sequence
Seq2(results) ==
    LET bad == {i \in 1..Len(results) : results[i].threw}
    IN  IF bad = {} THEN Ok(ConcatAll([i \in 1..Len(results) |-> results[i].text]))
        ELSE Thrown(results[Min(bad)].message)

\* ToPrimitive gives a primitive value for x: an object of a JSON document
\* has one (by Object.prototype.toString) unless a property toString of
\* its own, which is no function, hides that; an array has one when
\* Array.prototype.join has, which converts the elements that are
\* neither null nor undefined
RECURSIVE HasPrimitive(_)
HasPrimitive(x) ==
    CASE x.t = "object" -> "toString" \notin DOMAIN x.v
      [] x.t = "array" ->
             \A i \in 1..Len(x.v) : Nullish(x.v[i]) \/ HasPrimitive(x.v[i])
      [] OTHER -> TRUE

\* the text String(x) gives for a value that has a primitive value;
\* Array.prototype.join takes a null or undefined element as the empty
\* string
RECURSIVE TextOf(_)
TextOf(x) ==
    CASE x.t = "string" -> x.v
      [] x.t = "number" -> NumberText(x.v)
      [] x.t = "boolean" -> (IF x.v THEN <<"t","r","u","e">> ELSE <<"f","a","l","s","e">>)
      [] x.t = "null" -> <<"n","u","l","l">>
      [] x.t = "undefined" -> <<"u","n","d","e","f","i","n","e","d">>
      [] x.t = "array" ->
             join([i \in 1..Len(x.v) |->
                      IF x.v[i].t \in {"null", "undefined"} THEN <<>> ELSE TextOf(x.v[i])],
                  <<",">>)
      [] OTHER -> <<"[","o","b","j","e","c","t"," ","O","b","j","e","c","t","]">>

\* what a template literal `${x}` holds, or the TypeError of a value
\* without a primitive value
ToStr(x) == IF HasPrimitive(x) THEN Ok(TextOf(x)) ELSE Thrown(TypeErrorMessage)

-----------------------------------------------------------------------------
(* JsonToPrismaConverter                                                    *)

JsonHeader == <<"/","/"," ","A","u","t","o","-","g","e","n","e","r","a","t","e","d"," ","P","r","i","s","m","a"," ","s","c","h","e","m","a"," ","f","r","o","m"," ","J","S","O","N","\n","\n">> \o GeneratorBlock \o DatasourceBlock

\* JsonToPrismaConverter.isPrismaJsonFormat (data not nullish)
isPrismaJsonFormat(data) ==
    \/ Truthy(Get(data, "models"))
    \/ Truthy(Get(data, "enums"))
    \/ /\ IsArray(data)
       /\ Len(data.v) > 0
       /\ ~Nullish(data.v[1])
       /\ Truthy(Get(data.v[1], "name"))
       /\ Truthy(Get(data.v[1], "fields"))

\* JsonToPrismaConverter.isCustomSchemaFormat (data not nullish)
isCustomSchemaFormat(data) ==
    \/ Truthy(Get(data, "tables"))
    \/ Truthy(Get(data, "schemas"))
    \/ Truthy(Get(data, "entities"))

\* JsonToPrismaConverter.mapJsonTypeToPrisma; the plain object typeMap also
\* answers for the property names it inherits
mapJsonTypeToPrisma(jsonType) ==
    LET type == toLowerCase(jsonType.v)
    IN  IF ~Truthy(jsonType) THEN Ok(<<"S","t","r","i","n","g">>)
        ELSE IF jsonType.t # "string" THEN Thrown(TypeErrorMessage)
        ELSE CASE type \in {<<"s","t","r","i","n","g">>, <<"t","e","x","t">>, <<"v","a","r","c","h","a","r">>, <<"c","h","a","r">>} -> Ok(<<"S","t","r","i","n","g">>)
               [] type \in {<<"i","n","t">>, <<"i","n","t","e","g","e","r">>, <<"n","u","m","b","e","r">>, <<"s","m","a","l","l","i","n","t">>} -> Ok(<<"I","n","t">>)
               [] type \in {<<"b","i","g","i","n","t">>, <<"l","o","n","g">>} -> Ok(<<"B","i","g","I","n","t">>)
               [] type \in {<<"f","l","o","a","t">>, <<"d","o","u","b","l","e">>, <<"r","e","a","l">>} -> Ok(<<"F","l","o","a","t">>)
               [] type \in {<<"d","e","c","i","m","a","l">>, <<"n","u","m","e","r","i","c">>} -> Ok(<<"D","e","c","i","m","a","l">>)
               [] type \in {<<"b","o","o","l","e","a","n">>, <<"b","o","o","l">>} -> Ok(<<"B","o","o","l","e","a","n">>)
               [] type \in {<<"d","a","t","e">>, <<"d","a","t","e","t","i","m","e">>, <<"t","i","m","e","s","t","a","m","p">>} -> Ok(<<"D","a","t","e","T","i","m","e">>)
               [] type \in {<<"j","s","o","n">>, <<"j","s","o","n","b">>, <<"o","b","j","e","c","t">>} -> Ok(<<"J","s","o","n">>)
               [] type \in {<<"b","y","t","e","s">>, <<"b","i","n","a","r","y">>, <<"b","l","o","b">>} -> Ok(<<"B","y","t","e","s">>)
               [] type = <<"c","o","n","s","t","r","u","c","t","o","r">> -> Ok(<<"f","u","n","c","t","i","o","n"," ","O","b","j","e","c","t","(",")"," ","{"," ","[","n","a","t","i","v","e"," ","c","o","d","e","]"," ","}">>)
               [] type = <<"_","_","p","r","o","t","o","_","_">> -> Ok(<<"[","o","b","j","e","c","t"," ","O","b","j","e","c","t","]">>)
               [] OTHER -> Ok(<<"S","t","r","i","n","g">>)

\* JsonToPrismaConverter.toPascalCase; str.split throws unless str is a string
JsonToPascalCase(str) ==
    IF str.t # "string" THEN Thrown(TypeErrorMessage)
    ELSE Ok(PascalFrom(str.v, {"_", "-"}, 1))

\* " " and the attributes joined by " ", or nothing
AttributeText(attributes) ==
    IF Len(attributes) > 0 THEN <<" ">> \o join(attributes, <<" ">>) ELSE <<>>

\* the place of the first character of s that is in set, 0 when none is
FirstIn(s, set) ==
    IF \E i \in 1..Len(s) : s[i] \in set
    THEN CHOOSE i \in 1..Len(s) : s[i] \in set /\ \A j \in 1..(i - 1) : s[j] \notin set
    ELSE 0

AllIn(s, set) == \A i \in 1..Len(s) : s[i] \in set

\* the natural number written by at most six digits
RECURSIVE NaturalOf(_)
NaturalOf(digits) ==
    IF digits = <<>> THEN 0
    ELSE 10 * NaturalOf(SubSeq(digits, 1, Len(digits) - 1))
         + (CHOOSE d \in 0..9 : Digits(d) = <<digits[Len(digits)]>>)

\* the digits a after the point write a greater number than the digits b
TextAbove(a, b) ==
    \/ \E i \in 1..Len(a) :
           /\ i <= Len(b)
           /\ NaturalOf(<<a[i]>>) > NaturalOf(<<b[i]>>)
           /\ SubSeq(a, 1, i - 1) = SubSeq(b, 1, i - 1)
    \/ /\ Len(a) > Len(b)
       /\ SubSeq(a, 1, Len(b)) = b
       /\ ~AllIn(SubSeq(a, Len(b) + 1, Len(a)), {"0"})

\* a numeral of radix 16, 8 or 2, "0x.." and the like, is above 0
RadixAboveZero(t, digits) ==
    /\ Len(t) > 2
    /\ AllIn(SubSeq(t, 3, Len(t)), digits)
    /\ ~AllIn(SubSeq(t, 3, Len(t)), {"0"})

\* the digits of 2^-1075 (5^1075, to be multiplied by 10^-1075), the
\* greatest number that is rounded to 0
HalfOfLeast ==
    <<"2","4","7","0","3","2","8","2","2","9","2","0","6","2","3","2","7","2","0","8","8","2","8","4","3","9","6","4","3","4","1","1","0","6","8","6","1","8","2","5","2","9","9","0","1","3","0","7","1","6","2","3","8","2","2","1","2","7","9","2","8","4","1","2","5","0","3","3","7","7","5","3","6","3","5","1","0","4","3","7","5","9","3","2","6","4","9","9","1","8","1","8","0","8","1","7","9","9","6","1","8","9","8","9","8","2","8","2","3","4","7","7","2","2","8","5","8","8","6","5","4","6","3","3","2","8","3","5","5","1","7","7","9","6","9","8","9","8","1","9","9","3","8","7","3","9","8","0","0","5","3","9","0","9","3","9","0","6","3","1","5","0","3","5","6","5","9","5","1","5","5","7","0","2","2","6","3","9","2","2","9","0","8","5","8","3","9","2","4","4","9","1","0","5","1","8","4","4","3","5","9","3","1","8","0","2","8","4","9","9","3","6","5","3","6","1","5","2","5","0","0","3","1","9","3","7","0","4","5","7","6","7","8","2","4","9","2","1","9","3","6","5","6","2","3","6","6","9","8","6","3","6","5","8","4","8","0","7","5","7","0","0","1","5","8","5","7","6","9","2","6","9","9","0","3","7","0","6","3","1","1","9","2","8","2","7","9","5","5","8","5","5","1","3","3","2","9","2","7","8","3","4","3","3","8","4","0","9","3","5","1","9","7","8","0","1","5","5","3","1","2","4","6","5","9","7","2","6","3","5","7","9","5","7","4","6","2","2","7","6","6","4","6","5","2","7","2","8","2","7","2","2","0","0","5","6","3","7","4","0","0","6","4","8","5","4","9","9","9","7","7","0","9","6","5","9","9","4","7","0","4","5","4","0","2","0","8","2","8","1","6","6","2","2","6","2","3","7","8","5","7","3","9","3","4","5","0","7","3","6","3","3","9","0","0","7","9","6","7","7","6","1","9","3","0","5","7","7","5","0","6","7","4","0","1","7","6","3","2","4","6","7","3","6","0","0","9","6","8","9","5","1","3","4","0","5","3","5","5","3","7","4","5","8","5","1","6","6","6","1","1","3","4","2","2","3","7","6","6","6","7","8","6","0","4","1","6","2","1","5","9","6","8","0","4","6","1","9","1","4","4","6","7","2","9","1","8","4","0","3","0","0","5","3","0","0","5","7","5","3","0","8","4","9","0","4","8","7","6","5","3","9","1","7","1","1","3","8","6","5","9","1","6","4","6","2","3","9","5","2","4","9","1","2","6","2","3","6","5","3","8","8","1","8","7","9","6","3","6","2","3","9","3","7","3","2","8","0","4","2","3","8","9","1","0","1","8","6","7","2","3","4","8","4","9","7","6","6","8","2","3","5","0","8","9","8","6","3","3","8","8","5","8","7","9","2","5","6","2","8","3","0","2","7","5","5","9","9","5","6","5","7","5","2","4","4","5","5","5","0","7","2","5","5","1","8","9","3","1","3","6","9","0","8","3","6","2","5","4","7","7","9","1","8","6","9","4","8","6","6","7","9","9","4","9","6","8","3","2","4","0","4","9","7","0","5","8","2","1","0","2","8","5","1","3","1","8","5","4","5","1","3","9","6","2","1","3","8","3","7","7","2","2","8","2","6","1","4","5","4","3","7","6","9","3","4","1","2","5","3","2","0","9","8","5","9","1","3","2","7","6","6","7","2","3","6","3","2","8","1","2","5">>

\* a decimal numeral without sign is above 0: it is well formed, it has a
\* digit other than 0 and it is not rounded to 0 (the numbers up to 2^-1075
\* are).  mant
\* and expo are the parts before and after the letter e, int and frac the
\* parts of mant before and after the point, k the place of the first
\* digit other than 0, kept the digits of the exponent from the first one
\* other than 0.
DecimalAboveZero(u) ==
    \E ePos \in {FirstIn(u, {"e", "E"})} :
    \E mant \in {IF ePos = 0 THEN u ELSE SubSeq(u, 1, ePos - 1)},
       expo \in {IF ePos = 0 THEN <<>> ELSE SubSeq(u, ePos + 1, Len(u))} :
    \E dot \in {FirstIn(mant, {"."})},
       negative \in {expo # <<>> /\ expo[1] = "-"},
       expoDigits \in {IF expo # <<>> /\ expo[1] \in {"+", "-"} THEN Tail(expo) ELSE expo} :
    \E int \in {IF dot = 0 THEN mant ELSE SubSeq(mant, 1, dot - 1)},
       frac \in {IF dot = 0 THEN <<>> ELSE SubSeq(mant, dot + 1, Len(mant))},
       nz \in {FirstIn(expoDigits, Digit \ {"0"})} :
    \E k \in {FirstIn(int \o frac, Digit \ {"0"})},
       kept \in {IF nz = 0 THEN <<>> ELSE SubSeq(expoDigits, nz, Len(expoDigits))} :
        /\ AllIn(int, Digit) /\ AllIn(frac, Digit) /\ Len(int) + Len(frac) > 0
        /\ ePos # 0 => (expoDigits # <<>> /\ AllIn(expoDigits, Digit))
        /\ k # 0
        /\ IF Len(kept) > 6 THEN ~negative
           ELSE \E e \in {(Len(int) - k)
                             + (IF negative THEN 0 - NaturalOf(kept) ELSE NaturalOf(kept))} :
                    \/ e >= 0 - 323
                    \/ /\ e = 0 - 324
                       /\ TextAbove(SubSeq(int \o frac, k, Len(int) + Len(frac)),
                                    HalfOfLeast)

\* ToNumber(s) > 0 of a string
NumeralAboveZero(s) ==
    \E t \in {trim(s)} :
        IF t \in {<<"I","n","f","i","n","i","t","y">>, <<"+","I","n","f","i","n","i","t","y">>} THEN TRUE
        ELSE IF Len(t) >= 2 /\ t[1] = "0" /\ t[2] \in {"x", "X"}
        THEN RadixAboveZero(t, Digit \cup {"a","b","c","d","e","f","A","B","C","D","E","F"})
        ELSE IF Len(t) >= 2 /\ t[1] = "0" /\ t[2] \in {"o", "O"}
        THEN RadixAboveZero(t, {"0","1","2","3","4","5","6","7"})
        ELSE IF Len(t) >= 2 /\ t[1] = "0" /\ t[2] \in {"b", "B"}
        THEN RadixAboveZero(t, {"0","1"})
        ELSE IF t # <<>> /\ t[1] = "+" THEN DecimalAboveZero(Tail(t))
        ELSE DecimalAboveZero(t)

\* The outcome of a test that holds, does not hold or throws
Holds(value) == [threw |-> FALSE, value |-> value]

TestThrown == [threw |-> TRUE, value |-> FALSE]

\* x > 0: the primitive value of x as a number; a value without a
\* primitive value throws
GreaterThanZero(x) ==
    CASE x.t = "number" -> Holds(x.v > 0)
      [] x.t = "boolean" -> Holds(x.v)
      [] x.t = "string" -> Holds(NumeralAboveZero(x.v))
      [] x.t = "array" ->
             IF HasPrimitive(x) THEN Holds(NumeralAboveZero(TextOf(x))) ELSE TestThrown
      [] x.t = "object" -> IF HasPrimitive(x) THEN Holds(FALSE) ELSE TestThrown
      [] OTHER -> Holds(FALSE)

\* list.join(', ') of the relation field lists; join is no function of a
\* value that is not an array, and it converts the elements that are
\* neither null nor undefined
JoinList(list) ==
    IF IsArray(list) /\ HasPrimitive(list)
    THEN Ok(join([i \in 1..Len(list.v) |->
                     IF Nullish(list.v[i]) THEN <<>> ELSE TextOf(list.v[i])], <<","," ">>))
    ELSE Thrown(TypeErrorMessage)

\* list.length: the length of an array or a string, the property of that
\* name of an object, undefined elsewhere
LengthOf(list) ==
    CASE list.t \in {"array", "string"} -> JNum(Len(list.v))
      [] list.t = "object" -> Get(list, "length")
      [] OTHER -> JUndefined

\* list.length > 0
NonEmptyList(list) == GreaterThanZero(LengthOf(list))

\* the body of the loop over fields in generateModelFromJson
PrismaJsonFieldLine(field) ==
    IF Nullish(field) THEN Thrown(TypeErrorMessage)
    ELSE
    LET fieldType == Or(Get(field, "type"), JStr(<<"S","t","r","i","n","g">>))
        nullable == IF IsFalse(Get(field, "isRequired")) \/ Truthy(Get(field, "optional"))
                    THEN <<"?">> ELSE <<>>
        default == Get(field, "default")
        defaultName == Get(default, "name")
        relFields == Or(Get(field, "relationFromFields"), JArr(<<>>))
        relRefs == Or(Get(field, "relationToFields"), JArr(<<>>))
        fromFields == NonEmptyList(relFields)
        toFields == NonEmptyList(relRefs)
        \* relFields.length > 0 && relRefs.length > 0: the second test is
        \* made when the first holds
        testThrew == Truthy(Get(field, "relationName"))
                     /\ (fromFields.threw \/ (fromFields.value /\ toFields.threw))
        hasRelation == Truthy(Get(field, "relationName")) /\ ~testThrew
                       /\ fromFields.value /\ toFields.value
        idAttributes ==
            IF Truthy(Get(field, "isId")) \/ Truthy(Get(field, "isPrimaryKey"))
            THEN << <<"@","i","d">> >>
                 \o (IF Truthy(Get(field, "hasDefaultValue")) /\ ~Truthy(default)
                     THEN << <<"@","d","e","f","a","u","l","t","(","a","u","t","o","i","n","c","r","e","m","e","n","t","(",")",")">> >> ELSE <<>>)
            ELSE <<>>
        uniqueAttributes == IF Truthy(Get(field, "isUnique")) THEN << <<"@","u","n","i","q","u","e">> >> ELSE <<>>
        defaultAttributes ==
            IF ~Truthy(default) THEN <<>>
            ELSE IF IsString(defaultName, <<"n","o","w">>) THEN << <<"@","d","e","f","a","u","l","t","(","n","o","w","(",")",")">> >>
            ELSE IF IsString(defaultName, <<"a","u","t","o","i","n","c","r","e","m","e","n","t">>)
            THEN << <<"@","d","e","f","a","u","l","t","(","a","u","t","o","i","n","c","r","e","m","e","n","t","(",")",")">> >>
            ELSE IF IsString(defaultName, <<"u","u","i","d">>) THEN << <<"@","d","e","f","a","u","l","t","(","u","u","i","d","(",")",")">> >>
            ELSE <<>>
        relationAttributes ==
            IF hasRelation
            THEN << <<"@","r","e","l","a","t","i","o","n","(","f","i","e","l","d","s",":"," ","[">> \o JoinList(relFields).text
                    \o <<"]",","," ","r","e","f","e","r","e","n","c","e","s",":"," ","[">> \o JoinList(relRefs).text \o <<"]",")">> >>
            ELSE <<>>
    IN  IF \/ ToStr(Get(field, "name")).threw
           \/ ToStr(fieldType).threw
           \/ testThrew
           \/ hasRelation /\ (JoinList(relFields).threw \/ JoinList(relRefs).threw)
        THEN Thrown(TypeErrorMessage)
        ELSE Ok(<<" "," ">> \o TextOf(Get(field, "name")) \o <<" ">> \o TextOf(fieldType) \o nullable
                \o AttributeText(idAttributes \o uniqueAttributes \o defaultAttributes
                                 \o relationAttributes)
                \o <<"\n">>)

\* "for (const x of list)": the loop body's outcomes in order, over the
\* elements of an array or the code points of a string; no other value is
\* iterable
ForOf(list, Body(_)) ==
    IF IsArray(list) THEN Seq2([i \in 1..Len(list.v) |-> Body(list.v[i])])
    ELSE IF list.t = "string"
    THEN Seq2([i \in 1..Len(CodePoints(list.v)) |-> Body(JStr(CodePoints(list.v)[i]))])
    ELSE Thrown(TypeErrorMessage)

\* JsonToPrismaConverter.generateModelFromJson
generateModelFromJson(model) ==
    IF Nullish(model) THEN Thrown(TypeErrorMessage)
    ELSE Seq2(<< Ok(<<"m","o","d","e","l"," ">>), ToStr(Get(model, "name")), Ok(<<" ","{","\n">>),
                 ForOf(Or(Get(model, "fields"), JArr(<<>>)), PrismaJsonFieldLine),
                 Ok(<<"}","\n","\n">>) >>)

\* the text convertPrismaJson adds for one element of enums
PrismaJsonEnumText(enumDef) ==
    IF Nullish(enumDef) THEN Thrown(TypeErrorMessage)
    ELSE Seq2(<< Ok(<<"e","n","u","m"," ">>), ToStr(Get(enumDef, "name")), Ok(<<" ","{","\n">>),
                 ForOf(Get(enumDef, "values"),
                       LAMBDA value : Seq2(<< Ok(<<" "," ">>), ToStr(value), Ok(<<"\n">>) >>)),
                 Ok(<<"}","\n","\n">>) >>)

\* JsonToPrismaConverter.convertPrismaJson
convertPrismaJson(data) ==
    LET models == Or(Get(data, "models"), data)
        enums == Or(Get(data, "enums"), JArr(<<>>))
        r == Seq2(<< Ok(JsonHeader),
                     IF IsArray(enums) /\ Len(enums.v) > 0
                     THEN ForOf(enums, PrismaJsonEnumText) ELSE Ok(<<>>),
                     IF IsArray(models)
                     THEN ForOf(models, generateModelFromJson) ELSE Ok(<<>>) >>)
    IN  IF r.threw THEN r ELSE Ok(trim(r.text))

\* the attributes array of one field in convertCustomSchema, for a
\* default that has a primitive value
CustomFieldAttributes(field) ==
    LET defaultVal == Or(Get(field, "default"), Get(field, "defaultValue"))
    IN  (IF \/ Truthy(Get(field, "primaryKey"))
            \/ Truthy(Get(field, "isPrimaryKey"))
            \/ Truthy(Get(field, "primary"))
         THEN << <<"@","i","d"," ","@","d","e","f","a","u","l","t","(","a","u","t","o","i","n","c","r","e","m","e","n","t","(",")",")">> >> ELSE <<>>)
        \o (IF Truthy(Get(field, "unique")) \/ Truthy(Get(field, "isUnique"))
            THEN << <<"@","u","n","i","q","u","e">> >> ELSE <<>>)
        \o (IF ~Truthy(defaultVal) THEN <<>>
            ELSE IF IsString(defaultVal, <<"n","o","w">>) \/ IsString(defaultVal, <<"C","U","R","R","E","N","T","_","T","I","M","E","S","T","A","M","P">>)
            THEN << <<"@","d","e","f","a","u","l","t","(","n","o","w","(",")",")">> >>
            ELSE IF defaultVal.t = "string"
            THEN << <<"@","d","e","f","a","u","l","t","(","\"">> \o defaultVal.v \o <<"\"",")">> >>
            ELSE << <<"@","d","e","f","a","u","l","t","(">> \o TextOf(defaultVal) \o <<")">> >>)

\* the body of the loop over fields in convertCustomSchema
CustomFieldLine(field) ==
    IF Nullish(field) THEN Thrown(TypeErrorMessage)
    ELSE
    LET fieldName == Or(Or(Get(field, "name"), Get(field, "columnName")),
                        Get(field, "propertyName"))
        fieldType == mapJsonTypeToPrisma(Or(Get(field, "type"), Get(field, "dataType")))
        nullable == IF \/ Truthy(Get(field, "nullable"))
                       \/ Truthy(Get(field, "optional"))
                       \/ IsFalse(Get(field, "required"))
                    THEN <<"?">> ELSE <<>>
        defaultVal == Or(Get(field, "default"), Get(field, "defaultValue"))
    IN  IF fieldType.threw THEN fieldType
        ELSE IF ToStr(fieldName).threw \/ ToStr(defaultVal).threw
        THEN Thrown(TypeErrorMessage)
        ELSE Ok(<<" "," ">> \o TextOf(fieldName) \o <<" ">> \o fieldType.text \o nullable
                \o AttributeText(CustomFieldAttributes(field)) \o <<"\n">>)

\* the body of the loop over relations in convertCustomSchema
CustomRelationLine(rel) ==
    IF Nullish(rel) THEN Thrown(TypeErrorMessage)
    ELSE
    LET refTable == JsonToPascalCase(Or(Or(Get(rel, "references"), Get(rel, "referencedTable")),
                                        Get(rel, "toTable")))
        fieldName == Or(Get(rel, "field"), Get(rel, "column"))
        refField == Or(Or(Get(rel, "referencesField"), Get(rel, "referencedColumn")),
                       JStr(<<"i","d">>))
    IN  IF refTable.threw THEN refTable
        ELSE Seq2(<< Ok(<<" "," ">>),
                     ToStr(Or(Get(rel, "name"), JStr(toLowerCase(refTable.text)))),
                     Ok(<<" ">> \o refTable.text \o <<" ","@","r","e","l","a","t","i","o","n","(","f","i","e","l","d","s",":"," ","[">>),
                     ToStr(fieldName),
                     Ok(<<"]",","," ","r","e","f","e","r","e","n","c","e","s",":"," ","[">>),
                     ToStr(refField),
                     Ok(<<"]",")","\n">>) >>)

\* the body of the loop over tables in convertCustomSchema
CustomTableText(table) ==
    IF Nullish(table) THEN Thrown(TypeErrorMessage)
    ELSE
    LET modelName == JsonToPascalCase(Or(Or(Get(table, "name"), Get(table, "tableName")),
                                         Get(table, "entityName")))
        fields == Or(Or(Or(Get(table, "fields"), Get(table, "columns")),
                        Get(table, "properties")), JArr(<<>>))
        relations == Or(Or(Get(table, "relations"), Get(table, "foreignKeys")), JArr(<<>>))
    IN  IF modelName.threw THEN modelName
        ELSE Seq2(<< Ok(<<"m","o","d","e","l"," ">> \o modelName.text \o <<" ","{","\n">>),
                     ForOf(fields, CustomFieldLine),
                     IF Truthy(Get(table, "relations")) \/ Truthy(Get(table, "foreignKeys"))
                     THEN ForOf(relations, CustomRelationLine) ELSE Ok(<<>>),
                     Ok(<<"}","\n","\n">>) >>)

\* JsonToPrismaConverter.convertCustomSchema
convertCustomSchema(data) ==
    LET tables == Or(Or(Get(data, "tables"), Get(data, "schemas")), Get(data, "entities"))
        r == Seq2(<< Ok(JsonHeader),
                     IF IsArray(tables) THEN ForOf(tables, CustomTableText) ELSE Ok(<<>>) >>)
    IN  IF r.threw THEN r ELSE Ok(trim(r.text))

\* The JSON documents of the model, each with the value JSON.parse gives
\* for its text
JsonTable ==
  << [text |-> <<"{","\"","m","o","d","e","l","s","\"",":","[","{","\"","n","a","m","e","\"",":","\"","U","s","e","r","\"",",","\"","f","i","e","l","d","s","\"",":","[","{","\"","n","a","m","e","\"",":","\"","i","d","\"",",","\"","t","y","p","e","\"",":","\"","I","n","t","\"",",","\"","i","s","I","d","\"",":","t","r","u","e",",","\"","h","a","s","D","e","f","a","u","l","t","V","a","l","u","e","\"",":","t","r","u","e","}",",","{","\"","n","a","m","e","\"",":","\"","e","m","a","i","l","\"",",","\"","t","y","p","e","\"",":","\"","S","t","r","i","n","g","\"",",","\"","i","s","U","n","i","q","u","e","\"",":","t","r","u","e","}",",","{","\"","n","a","m","e","\"",":","\"","n","a","m","e","\"",",","\"","t","y","p","e","\"",":","\"","S","t","r","i","n","g","\"",",","\"","i","s","R","e","q","u","i","r","e","d","\"",":","f","a","l","s","e","}","]","}","]",",","\"","e","n","u","m","s","\"",":","[","{","\"","n","a","m","e","\"",":","\"","R","o","l","e","\"",",","\"","v","a","l","u","e","s","\"",":","[","\"","U","S","E","R","\"",",","\"","A","D","M","I","N","\"","]","}","]","}">>,
     value |-> JObj([models |-> JArr(<<JObj([name |-> JStr(<<"U","s","e","r">>), fields |-> JArr(<<JObj([name |-> JStr(<<"i","d">>), type |-> JStr(<<"I","n","t">>), isId |-> JBool(TRUE), hasDefaultValue |-> JBool(TRUE)]), JObj([name |-> JStr(<<"e","m","a","i","l">>), type |-> JStr(<<"S","t","r","i","n","g">>), isUnique |-> JBool(TRUE)]), JObj([name |-> JStr(<<"n","a","m","e">>), type |-> JStr(<<"S","t","r","i","n","g">>), isRequired |-> JBool(FALSE)])>>)])>>), enums |-> JArr(<<JObj([name |-> JStr(<<"R","o","l","e">>), values |-> JArr(<<JStr(<<"U","S","E","R">>), JStr(<<"A","D","M","I","N">>)>>)])>>)])],
     [text |-> <<"{","\"","t","a","b","l","e","s","\"",":","[","{","\"","n","a","m","e","\"",":","\"","o","r","d","e","r","_","i","t","e","m","s","\"",",","\"","c","o","l","u","m","n","s","\"",":","[","{","\"","n","a","m","e","\"",":","\"","i","d","\"",",","\"","t","y","p","e","\"",":","\"","i","n","t","e","g","e","r","\"",",","\"","p","r","i","m","a","r","y","K","e","y","\"",":","t","r","u","e","}",",","{","\"","n","a","m","e","\"",":","\"","u","s","e","r","_","i","d","\"",",","\"","t","y","p","e","\"",":","\"","I","N","T","\"",",","\"","n","u","l","l","a","b","l","e","\"",":","t","r","u","e","}",",","{","\"","n","a","m","e","\"",":","\"","n","o","t","e","\"",",","\"","d","a","t","a","T","y","p","e","\"",":","\"","v","a","r","c","h","a","r","\"",",","\"","d","e","f","a","u","l","t","\"",":","\"","x","\"","}","]",",","\"","f","o","r","e","i","g","n","K","e","y","s","\"",":","[","{","\"","c","o","l","u","m","n","\"",":","\"","u","s","e","r","_","i","d","\"",",","\"","r","e","f","e","r","e","n","c","e","s","\"",":","\"","u","s","e","r","s","\"","}","]","}","]","}">>,
     value |-> JObj([tables |-> JArr(<<JObj([name |-> JStr(<<"o","r","d","e","r","_","i","t","e","m","s">>), columns |-> JArr(<<JObj([name |-> JStr(<<"i","d">>), type |-> JStr(<<"i","n","t","e","g","e","r">>), primaryKey |-> JBool(TRUE)]), JObj([name |-> JStr(<<"u","s","e","r","_","i","d">>), type |-> JStr(<<"I","N","T">>), nullable |-> JBool(TRUE)]), JObj([name |-> JStr(<<"n","o","t","e">>), dataType |-> JStr(<<"v","a","r","c","h","a","r">>), default |-> JStr(<<"x">>)])>>), foreignKeys |-> JArr(<<JObj([column |-> JStr(<<"u","s","e","r","_","i","d">>), references |-> JStr(<<"u","s","e","r","s">>)])>>)])>>)])],
     [text |-> <<"{","\"","m","o","d","e","l","s","\"",":","[","{","\"","n","a","m","e","\"",":","\"","A","\"",",","\"","f","i","e","l","d","s","\"",":","[","{","\"","n","a","m","e","\"",":","\"","i","d","\"",",","\"","t","y","p","e","\"",":","\"","I","n","t","\"",",","\"","i","s","I","d","\"",":","t","r","u","e","}","]","}","]",",","\"","t","a","b","l","e","s","\"",":","[","{","\"","n","a","m","e","\"",":","\"","b","\"",",","\"","f","i","e","l","d","s","\"",":","[","{","\"","n","a","m","e","\"",":","\"","i","d","\"",",","\"","t","y","p","e","\"",":","\"","i","n","t","\"","}","]","}","]","}">>,
     value |-> JObj([models |-> JArr(<<JObj([name |-> JStr(<<"A">>), fields |-> JArr(<<JObj([name |-> JStr(<<"i","d">>), type |-> JStr(<<"I","n","t">>), isId |-> JBool(TRUE)])>>)])>>), tables |-> JArr(<<JObj([name |-> JStr(<<"b">>), fields |-> JArr(<<JObj([name |-> JStr(<<"i","d">>), type |-> JStr(<<"i","n","t">>)])>>)])>>)])],
     [text |-> <<"[","{","\"","n","a","m","e","\"",":","\"","P","o","s","t","\"",",","\"","f","i","e","l","d","s","\"",":","[","{","\"","n","a","m","e","\"",":","\"","i","d","\"",",","\"","t","y","p","e","\"",":","\"","I","n","t","\"",",","\"","i","s","I","d","\"",":","t","r","u","e","}",",","{","\"","n","a","m","e","\"",":","\"","a","u","t","h","o","r","I","d","\"",",","\"","t","y","p","e","\"",":","\"","I","n","t","\"","}",",","{","\"","n","a","m","e","\"",":","\"","a","u","t","h","o","r","\"",",","\"","t","y","p","e","\"",":","\"","U","s","e","r","\"",",","\"","r","e","l","a","t","i","o","n","N","a","m","e","\"",":","\"","P","o","s","t","T","o","U","s","e","r","\"",",","\"","r","e","l","a","t","i","o","n","F","r","o","m","F","i","e","l","d","s","\"",":","[","\"","a","u","t","h","o","r","I","d","\"","]",",","\"","r","e","l","a","t","i","o","n","T","o","F","i","e","l","d","s","\"",":","[","\"","i","d","\"","]","}","]","}","]">>,
     value |-> JArr(<<JObj([name |-> JStr(<<"P","o","s","t">>), fields |-> JArr(<<JObj([name |-> JStr(<<"i","d">>), type |-> JStr(<<"I","n","t">>), isId |-> JBool(TRUE)]), JObj([name |-> JStr(<<"a","u","t","h","o","r","I","d">>), type |-> JStr(<<"I","n","t">>)]), JObj([name |-> JStr(<<"a","u","t","h","o","r">>), type |-> JStr(<<"U","s","e","r">>), relationName |-> JStr(<<"P","o","s","t","T","o","U","s","e","r">>), relationFromFields |-> JArr(<<JStr(<<"a","u","t","h","o","r","I","d">>)>>), relationToFields |-> JArr(<<JStr(<<"i","d">>)>>)])>>)])>>)],
     [text |-> <<"{","\"","e","n","u","m","s","\"",":","[","{","\"","n","a","m","e","\"",":","\"","R","o","l","e","\"",",","\"","v","a","l","u","e","s","\"",":","[","\"","A","\"",",","\"","B","\"","]","}","]","}">>,
     value |-> JObj([enums |-> JArr(<<JObj([name |-> JStr(<<"R","o","l","e">>), values |-> JArr(<<JStr(<<"A">>), JStr(<<"B">>)>>)])>>)])],
     [text |-> <<"{","\"","f","o","o","\"",":","1","}">>,
     value |-> JObj([foo |-> JNum(1)])],
     [text |-> <<"n","u","l","l">>,
     value |-> JNull],
     [text |-> <<"4","2">>,
     value |-> JNum(42)],
     [text |-> <<"[","]">>,
     value |-> JArr(<<>>)],
     [text |-> <<"{","\"","m","o","d","e","l","s","\"",":","[","]","}">>,
     value |-> JObj([models |-> JArr(<<>>)])],
     [text |-> <<"{","\"","m","o","d","e","l","s","\"",":","[","{","\"","n","a","m","e","\"",":","\"","A","\"",",","\"","f","i","e","l","d","s","\"",":","5","}","]","}">>,
     value |-> JObj([models |-> JArr(<<JObj([name |-> JStr(<<"A">>), fields |-> JNum(5)])>>)])],
     [text |-> <<"{","\"","m","o","d","e","l","s","\"",":","[","n","u","l","l","]","}">>,
     value |-> JObj([models |-> JArr(<<JNull>>)])],
     [text |-> <<"{","\"","e","n","u","m","s","\"",":","[","{","\"","n","a","m","e","\"",":","\"","E","\"","}","]","}">>,
     value |-> JObj([enums |-> JArr(<<JObj([name |-> JStr(<<"E">>)])>>)])],
     [text |-> <<"{","\"","t","a","b","l","e","s","\"",":","[","{","\"","c","o","l","u","m","n","s","\"",":","[","{","\"","n","a","m","e","\"",":","\"","i","d","\"",",","\"","t","y","p","e","\"",":","\"","i","n","t","\"","}","]","}","]","}">>,
     value |-> JObj([tables |-> JArr(<<JObj([columns |-> JArr(<<JObj([name |-> JStr(<<"i","d">>), type |-> JStr(<<"i","n","t">>)])>>)])>>)])],
     [text |-> <<"{","\"","t","a","b","l","e","s","\"",":","[","{","\"","n","a","m","e","\"",":","\"","t","\"",",","\"","c","o","l","u","m","n","s","\"",":","[","{","\"","n","a","m","e","\"",":","\"","i","d","\"",",","\"","t","y","p","e","\"",":","7","}","]","}","]","}">>,
     value |-> JObj([tables |-> JArr(<<JObj([name |-> JStr(<<"t">>), columns |-> JArr(<<JObj([name |-> JStr(<<"i","d">>), type |-> JNum(7)])>>)])>>)])],
     [text |-> <<"{","\"","t","a","b","l","e","s","\"",":","[","{","\"","n","a","m","e","\"",":","\"","t","\"",",","\"","c","o","l","u","m","n","s","\"",":","[","{","\"","n","a","m","e","\"",":","\"","c","\"",",","\"","t","y","p","e","\"",":","\"","s","t","r","i","n","g","\"","}","]","}","]","}">>,
     value |-> JObj([tables |-> JArr(<<JObj([name |-> JStr(<<"t">>), columns |-> JArr(<<JObj([name |-> JStr(<<"c">>), type |-> JStr(<<"s","t","r","i","n","g">>)])>>)])>>)])],
     [text |-> <<"{","\"","t","a","b","l","e","s","\"",":","[","{","\"","n","a","m","e","\"",":","\"","t","\"",",","\"","c","o","l","u","m","n","s","\"",":","[","{","\"","n","a","m","e","\"",":","\"","c","\"",",","\"","t","y","p","e","\"",":","\"","S","t","r","i","n","g","\"","}","]","}","]","}">>,
     value |-> JObj([tables |-> JArr(<<JObj([name |-> JStr(<<"t">>), columns |-> JArr(<<JObj([name |-> JStr(<<"c">>), type |-> JStr(<<"S","t","r","i","n","g">>)])>>)])>>)])],
     [text |-> <<"{","\"","t","a","b","l","e","s","\"",":","[","{","\"","n","a","m","e","\"",":","\"","t","\"",",","\"","c","o","l","u","m","n","s","\"",":","[","{","\"","n","a","m","e","\"",":","\"","c","\"",",","\"","t","y","p","e","\"",":","\"","S","T","R","I","N","G","\"","}","]","}","]","}">>,
     value |-> JObj([tables |-> JArr(<<JObj([name |-> JStr(<<"t">>), columns |-> JArr(<<JObj([name |-> JStr(<<"c">>), type |-> JStr(<<"S","T","R","I","N","G">>)])>>)])>>)])],
     [text |-> <<"{","\"","t","a","b","l","e","s","\"",":","[","{","\"","n","a","m","e","\"",":","\"","t","\"",",","\"","c","o","l","u","m","n","s","\"",":","[","{","\"","n","a","m","e","\"",":","\"","c","\"",",","\"","t","y","p","e","\"",":","\"","T","e","x","t","\"","}","]","}","]","}">>,
     value |-> JObj([tables |-> JArr(<<JObj([name |-> JStr(<<"t">>), columns |-> JArr(<<JObj([name |-> JStr(<<"c">>), type |-> JStr(<<"T","e","x","t">>)])>>)])>>)])],
     [text |-> <<"{","\"","t","a","b","l","e","s","\"",":","[","{","\"","n","a","m","e","\"",":","\"","t","\"",",","\"","c","o","l","u","m","n","s","\"",":","[","{","\"","n","a","m","e","\"",":","\"","c","\"",",","\"","t","y","p","e","\"",":","\"","V","A","R","C","H","A","R","\"","}","]","}","]","}">>,
     value |-> JObj([tables |-> JArr(<<JObj([name |-> JStr(<<"t">>), columns |-> JArr(<<JObj([name |-> JStr(<<"c">>), type |-> JStr(<<"V","A","R","C","H","A","R">>)])>>)])>>)])],
     [text |-> <<"{","\"","t","a","b","l","e","s","\"",":","[","{","\"","n","a","m","e","\"",":","\"","t","\"",",","\"","c","o","l","u","m","n","s","\"",":","[","{","\"","n","a","m","e","\"",":","\"","c","\"",",","\"","t","y","p","e","\"",":","\"","c","h","a","r","\"","}","]","}","]","}">>,
     value |-> JObj([tables |-> JArr(<<JObj([name |-> JStr(<<"t">>), columns |-> JArr(<<JObj([name |-> JStr(<<"c">>), type |-> JStr(<<"c","h","a","r">>)])>>)])>>)])],
     [text |-> <<"{","\"","t","a","b","l","e","s","\"",":","[","{","\"","n","a","m","e","\"",":","\"","t","\"",",","\"","c","o","l","u","m","n","s","\"",":","[","{","\"","n","a","m","e","\"",":","\"","c","\"",",","\"","t","y","p","e","\"",":","\"","I","n","t","e","g","e","r","\"","}","]","}","]","}">>,
     value |-> JObj([tables |-> JArr(<<JObj([name |-> JStr(<<"t">>), columns |-> JArr(<<JObj([name |-> JStr(<<"c">>), type |-> JStr(<<"I","n","t","e","g","e","r">>)])>>)])>>)])],
     [text |-> <<"{","\"","t","a","b","l","e","s","\"",":","[","{","\"","n","a","m","e","\"",":","\"","t","\"",",","\"","c","o","l","u","m","n","s","\"",":","[","{","\"","n","a","m","e","\"",":","\"","c","\"",",","\"","t","y","p","e","\"",":","\"","I","N","T","\"","}","]","}","]","}">>,
     value |-> JObj([tables |-> JArr(<<JObj([name |-> JStr(<<"t">>), columns |-> JArr(<<JObj([name |-> JStr(<<"c">>), type |-> JStr(<<"I","N","T">>)])>>)])>>)])],
     [text |-> <<"{","\"","t","a","b","l","e","s","\"",":","[","{","\"","n","a","m","e","\"",":","\"","t","\"",",","\"","c","o","l","u","m","n","s","\"",":","[","{","\"","n","a","m","e","\"",":","\"","c","\"",",","\"","t","y","p","e","\"",":","\"","N","U","M","B","E","R","\"","}","]","}","]","}">>,
     value |-> JObj([tables |-> JArr(<<JObj([name |-> JStr(<<"t">>), columns |-> JArr(<<JObj([name |-> JStr(<<"c">>), type |-> JStr(<<"N","U","M","B","E","R">>)])>>)])>>)])],
     [text |-> <<"{","\"","t","a","b","l","e","s","\"",":","[","{","\"","n","a","m","e","\"",":","\"","t","\"",",","\"","c","o","l","u","m","n","s","\"",":","[","{","\"","n","a","m","e","\"",":","\"","c","\"",",","\"","t","y","p","e","\"",":","\"","s","m","a","l","l","i","n","t","\"","}","]","}","]","}">>,
     value |-> JObj([tables |-> JArr(<<JObj([name |-> JStr(<<"t">>), columns |-> JArr(<<JObj([name |-> JStr(<<"c">>), type |-> JStr(<<"s","m","a","l","l","i","n","t">>)])>>)])>>)])],
     [text |-> <<"{","\"","t","a","b","l","e","s","\"",":","[","{","\"","n","a","m","e","\"",":","\"","t","\"",",","\"","c","o","l","u","m","n","s","\"",":","[","{","\"","n","a","m","e","\"",":","\"","c","\"",",","\"","t","y","p","e","\"",":","\"","B","i","g","I","n","t","\"","}","]","}","]","}">>,
     value |-> JObj([tables |-> JArr(<<JObj([name |-> JStr(<<"t">>), columns |-> JArr(<<JObj([name |-> JStr(<<"c">>), type |-> JStr(<<"B","i","g","I","n","t">>)])>>)])>>)])],
     [text |-> <<"{","\"","t","a","b","l","e","s","\"",":","[","{","\"","n","a","m","e","\"",":","\"","t","\"",",","\"","c","o","l","u","m","n","s","\"",":","[","{","\"","n","a","m","e","\"",":","\"","c","\"",",","\"","t","y","p","e","\"",":","\"","l","o","n","g","\"","}","]","}","]","}">>,
     value |-> JObj([tables |-> JArr(<<JObj([name |-> JStr(<<"t">>), columns |-> JArr(<<JObj([name |-> JStr(<<"c">>), type |-> JStr(<<"l","o","n","g">>)])>>)])>>)])],
     [text |-> <<"{","\"","t","a","b","l","e","s","\"",":","[","{","\"","n","a","m","e","\"",":","\"","t","\"",",","\"","c","o","l","u","m","n","s","\"",":","[","{","\"","n","a","m","e","\"",":","\"","c","\"",",","\"","t","y","p","e","\"",":","\"","F","l","o","a","t","\"","}","]","}","]","}">>,
     value |-> JObj([tables |-> JArr(<<JObj([name |-> JStr(<<"t">>), columns |-> JArr(<<JObj([name |-> JStr(<<"c">>), type |-> JStr(<<"F","l","o","a","t">>)])>>)])>>)])],
     [text |-> <<"{","\"","t","a","b","l","e","s","\"",":","[","{","\"","n","a","m","e","\"",":","\"","t","\"",",","\"","c","o","l","u","m","n","s","\"",":","[","{","\"","n","a","m","e","\"",":","\"","c","\"",",","\"","t","y","p","e","\"",":","\"","D","O","U","B","L","E","\"","}","]","}","]","}">>,
     value |-> JObj([tables |-> JArr(<<JObj([name |-> JStr(<<"t">>), columns |-> JArr(<<JObj([name |-> JStr(<<"c">>), type |-> JStr(<<"D","O","U","B","L","E">>)])>>)])>>)])],
     [text |-> <<"{","\"","t","a","b","l","e","s","\"",":","[","{","\"","n","a","m","e","\"",":","\"","t","\"",",","\"","c","o","l","u","m","n","s","\"",":","[","{","\"","n","a","m","e","\"",":","\"","c","\"",",","\"","t","y","p","e","\"",":","\"","r","e","a","l","\"","}","]","}","]","}">>,
     value |-> JObj([tables |-> JArr(<<JObj([name |-> JStr(<<"t">>), columns |-> JArr(<<JObj([name |-> JStr(<<"c">>), type |-> JStr(<<"r","e","a","l">>)])>>)])>>)])],
     [text |-> <<"{","\"","t","a","b","l","e","s","\"",":","[","{","\"","n","a","m","e","\"",":","\"","t","\"",",","\"","c","o","l","u","m","n","s","\"",":","[","{","\"","n","a","m","e","\"",":","\"","c","\"",",","\"","t","y","p","e","\"",":","\"","D","e","c","i","m","a","l","\"","}","]","}","]","}">>,
     value |-> JObj([tables |-> JArr(<<JObj([name |-> JStr(<<"t">>), columns |-> JArr(<<JObj([name |-> JStr(<<"c">>), type |-> JStr(<<"D","e","c","i","m","a","l">>)])>>)])>>)])],
     [text |-> <<"{","\"","t","a","b","l","e","s","\"",":","[","{","\"","n","a","m","e","\"",":","\"","t","\"",",","\"","c","o","l","u","m","n","s","\"",":","[","{","\"","n","a","m","e","\"",":","\"","c","\"",",","\"","t","y","p","e","\"",":","\"","n","u","m","e","r","i","c","\"","}","]","}","]","}">>,
     value |-> JObj([tables |-> JArr(<<JObj([name |-> JStr(<<"t">>), columns |-> JArr(<<JObj([name |-> JStr(<<"c">>), type |-> JStr(<<"n","u","m","e","r","i","c">>)])>>)])>>)])],
     [text |-> <<"{","\"","t","a","b","l","e","s","\"",":","[","{","\"","n","a","m","e","\"",":","\"","t","\"",",","\"","c","o","l","u","m","n","s","\"",":","[","{","\"","n","a","m","e","\"",":","\"","c","\"",",","\"","t","y","p","e","\"",":","\"","B","o","o","l","\"","}","]","}","]","}">>,
     value |-> JObj([tables |-> JArr(<<JObj([name |-> JStr(<<"t">>), columns |-> JArr(<<JObj([name |-> JStr(<<"c">>), type |-> JStr(<<"B","o","o","l">>)])>>)])>>)])],
     [text |-> <<"{","\"","t","a","b","l","e","s","\"",":","[","{","\"","n","a","m","e","\"",":","\"","t","\"",",","\"","c","o","l","u","m","n","s","\"",":","[","{","\"","n","a","m","e","\"",":","\"","c","\"",",","\"","t","y","p","e","\"",":","\"","B","O","O","L","E","A","N","\"","}","]","}","]","}">>,
     value |-> JObj([tables |-> JArr(<<JObj([name |-> JStr(<<"t">>), columns |-> JArr(<<JObj([name |-> JStr(<<"c">>), type |-> JStr(<<"B","O","O","L","E","A","N">>)])>>)])>>)])],
     [text |-> <<"{","\"","t","a","b","l","e","s","\"",":","[","{","\"","n","a","m","e","\"",":","\"","t","\"",",","\"","c","o","l","u","m","n","s","\"",":","[","{","\"","n","a","m","e","\"",":","\"","c","\"",",","\"","t","y","p","e","\"",":","\"","D","a","t","e","\"","}","]","}","]","}">>,
     value |-> JObj([tables |-> JArr(<<JObj([name |-> JStr(<<"t">>), columns |-> JArr(<<JObj([name |-> JStr(<<"c">>), type |-> JStr(<<"D","a","t","e">>)])>>)])>>)])],
     [text |-> <<"{","\"","t","a","b","l","e","s","\"",":","[","{","\"","n","a","m","e","\"",":","\"","t","\"",",","\"","c","o","l","u","m","n","s","\"",":","[","{","\"","n","a","m","e","\"",":","\"","c","\"",",","\"","t","y","p","e","\"",":","\"","D","a","t","e","T","i","m","e","\"","}","]","}","]","}">>,
     value |-> JObj([tables |-> JArr(<<JObj([name |-> JStr(<<"t">>), columns |-> JArr(<<JObj([name |-> JStr(<<"c">>), type |-> JStr(<<"D","a","t","e","T","i","m","e">>)])>>)])>>)])],
     [text |-> <<"{","\"","t","a","b","l","e","s","\"",":","[","{","\"","n","a","m","e","\"",":","\"","t","\"",",","\"","c","o","l","u","m","n","s","\"",":","[","{","\"","n","a","m","e","\"",":","\"","c","\"",",","\"","t","y","p","e","\"",":","\"","t","i","m","e","s","t","a","m","p","\"","}","]","}","]","}">>,
     value |-> JObj([tables |-> JArr(<<JObj([name |-> JStr(<<"t">>), columns |-> JArr(<<JObj([name |-> JStr(<<"c">>), type |-> JStr(<<"t","i","m","e","s","t","a","m","p">>)])>>)])>>)])],
     [text |-> <<"{","\"","t","a","b","l","e","s","\"",":","[","{","\"","n","a","m","e","\"",":","\"","t","\"",",","\"","c","o","l","u","m","n","s","\"",":","[","{","\"","n","a","m","e","\"",":","\"","c","\"",",","\"","t","y","p","e","\"",":","\"","j","s","o","n","\"","}","]","}","]","}">>,
     value |-> JObj([tables |-> JArr(<<JObj([name |-> JStr(<<"t">>), columns |-> JArr(<<JObj([name |-> JStr(<<"c">>), type |-> JStr(<<"j","s","o","n">>)])>>)])>>)])],
     [text |-> <<"{","\"","t","a","b","l","e","s","\"",":","[","{","\"","n","a","m","e","\"",":","\"","t","\"",",","\"","c","o","l","u","m","n","s","\"",":","[","{","\"","n","a","m","e","\"",":","\"","c","\"",",","\"","t","y","p","e","\"",":","\"","J","S","O","N","B","\"","}","]","}","]","}">>,
     value |-> JObj([tables |-> JArr(<<JObj([name |-> JStr(<<"t">>), columns |-> JArr(<<JObj([name |-> JStr(<<"c">>), type |-> JStr(<<"J","S","O","N","B">>)])>>)])>>)])],
     [text |-> <<"{","\"","t","a","b","l","e","s","\"",":","[","{","\"","n","a","m","e","\"",":","\"","t","\"",",","\"","c","o","l","u","m","n","s","\"",":","[","{","\"","n","a","m","e","\"",":","\"","c","\"",",","\"","t","y","p","e","\"",":","\"","O","b","j","e","c","t","\"","}","]","}","]","}">>,
     value |-> JObj([tables |-> JArr(<<JObj([name |-> JStr(<<"t">>), columns |-> JArr(<<JObj([name |-> JStr(<<"c">>), type |-> JStr(<<"O","b","j","e","c","t">>)])>>)])>>)])],
     [text |-> <<"{","\"","t","a","b","l","e","s","\"",":","[","{","\"","n","a","m","e","\"",":","\"","t","\"",",","\"","c","o","l","u","m","n","s","\"",":","[","{","\"","n","a","m","e","\"",":","\"","c","\"",",","\"","t","y","p","e","\"",":","\"","B","y","t","e","s","\"","}","]","}","]","}">>,
     value |-> JObj([tables |-> JArr(<<JObj([name |-> JStr(<<"t">>), columns |-> JArr(<<JObj([name |-> JStr(<<"c">>), type |-> JStr(<<"B","y","t","e","s">>)])>>)])>>)])],
     [text |-> <<"{","\"","t","a","b","l","e","s","\"",":","[","{","\"","n","a","m","e","\"",":","\"","t","\"",",","\"","c","o","l","u","m","n","s","\"",":","[","{","\"","n","a","m","e","\"",":","\"","c","\"",",","\"","t","y","p","e","\"",":","\"","b","i","n","a","r","y","\"","}","]","}","]","}">>,
     value |-> JObj([tables |-> JArr(<<JObj([name |-> JStr(<<"t">>), columns |-> JArr(<<JObj([name |-> JStr(<<"c">>), type |-> JStr(<<"b","i","n","a","r","y">>)])>>)])>>)])],
     [text |-> <<"{","\"","t","a","b","l","e","s","\"",":","[","{","\"","n","a","m","e","\"",":","\"","t","\"",",","\"","c","o","l","u","m","n","s","\"",":","[","{","\"","n","a","m","e","\"",":","\"","c","\"",",","\"","t","y","p","e","\"",":","\"","b","l","o","b","\"","}","]","}","]","}">>,
     value |-> JObj([tables |-> JArr(<<JObj([name |-> JStr(<<"t">>), columns |-> JArr(<<JObj([name |-> JStr(<<"c">>), type |-> JStr(<<"b","l","o","b">>)])>>)])>>)])],
     [text |-> <<"{","\"","t","a","b","l","e","s","\"",":","[","{","\"","n","a","m","e","\"",":","\"","t","\"",",","\"","c","o","l","u","m","n","s","\"",":","[","{","\"","n","a","m","e","\"",":","\"","c","\"",",","\"","t","y","p","e","\"",":","\"","u","u","i","d","\"","}","]","}","]","}">>,
     value |-> JObj([tables |-> JArr(<<JObj([name |-> JStr(<<"t">>), columns |-> JArr(<<JObj([name |-> JStr(<<"c">>), type |-> JStr(<<"u","u","i","d">>)])>>)])>>)])],
     [text |-> <<"{","\"","t","a","b","l","e","s","\"",":","[","{","\"","n","a","m","e","\"",":","\"","t","\"",",","\"","c","o","l","u","m","n","s","\"",":","[","{","\"","n","a","m","e","\"",":","\"","c","\"",",","\"","t","y","p","e","\"",":","\"","m","o","n","e","y","\"","}","]","}","]","}">>,
     value |-> JObj([tables |-> JArr(<<JObj([name |-> JStr(<<"t">>), columns |-> JArr(<<JObj([name |-> JStr(<<"c">>), type |-> JStr(<<"m","o","n","e","y">>)])>>)])>>)])],
     [text |-> <<"{","\"","t","a","b","l","e","s","\"",":","[","{","\"","n","a","m","e","\"",":","\"","t","\"",",","\"","c","o","l","u","m","n","s","\"",":","[","{","\"","n","a","m","e","\"",":","\"","c","\"",",","\"","t","y","p","e","\"",":","\"","v","a","r","c","h","a","r","(","2","5","5",")","\"","}","]","}","]","}">>,
     value |-> JObj([tables |-> JArr(<<JObj([name |-> JStr(<<"t">>), columns |-> JArr(<<JObj([name |-> JStr(<<"c">>), type |-> JStr(<<"v","a","r","c","h","a","r","(","2","5","5",")">>)])>>)])>>)])],
     [text |-> <<"{","\"","t","a","b","l","e","s","\"",":","[","{","\"","n","a","m","e","\"",":","\"","t","\"",",","\"","c","o","l","u","m","n","s","\"",":","[","{","\"","n","a","m","e","\"",":","\"","c","\"",",","\"","t","y","p","e","\"",":","\"","t","i","m","e","\"","}","]","}","]","}">>,
     value |-> JObj([tables |-> JArr(<<JObj([name |-> JStr(<<"t">>), columns |-> JArr(<<JObj([name |-> JStr(<<"c">>), type |-> JStr(<<"t","i","m","e">>)])>>)])>>)])],
     [text |-> <<"{","\"","t","a","b","l","e","s","\"",":","[","{","\"","n","a","m","e","\"",":","\"","t","\"",",","\"","c","o","l","u","m","n","s","\"",":","[","{","\"","n","a","m","e","\"",":","\"","c","\"",",","\"","t","y","p","e","\"",":","\"","t","o","S","t","r","i","n","g","\"","}","]","}","]","}">>,
     value |-> JObj([tables |-> JArr(<<JObj([name |-> JStr(<<"t">>), columns |-> JArr(<<JObj([name |-> JStr(<<"c">>), type |-> JStr(<<"t","o","S","t","r","i","n","g">>)])>>)])>>)])],
     [text |-> <<"{","\"","t","a","b","l","e","s","\"",":","[","{","\"","n","a","m","e","\"",":","\"","t","\"",",","\"","c","o","l","u","m","n","s","\"",":","[","{","\"","n","a","m","e","\"",":","\"","c","\"",",","\"","t","y","p","e","\"",":","\"","c","o","n","s","t","r","u","c","t","o","r","\"","}","]","}","]","}">>,
     value |-> JObj([tables |-> JArr(<<JObj([name |-> JStr(<<"t">>), columns |-> JArr(<<JObj([name |-> JStr(<<"c">>), type |-> JStr(<<"c","o","n","s","t","r","u","c","t","o","r">>)])>>)])>>)])],
     [text |-> <<"{","\"","t","a","b","l","e","s","\"",":","[","{","\"","n","a","m","e","\"",":","\"","t","\"",",","\"","c","o","l","u","m","n","s","\"",":","[","{","\"","n","a","m","e","\"",":","\"","c","\"",",","\"","t","y","p","e","\"",":","\"","C","o","n","s","t","r","u","c","t","o","r","\"","}","]","}","]","}">>,
     value |-> JObj([tables |-> JArr(<<JObj([name |-> JStr(<<"t">>), columns |-> JArr(<<JObj([name |-> JStr(<<"c">>), type |-> JStr(<<"C","o","n","s","t","r","u","c","t","o","r">>)])>>)])>>)])],
     [text |-> <<"{","\"","t","a","b","l","e","s","\"",":","[","{","\"","n","a","m","e","\"",":","\"","t","\"",",","\"","c","o","l","u","m","n","s","\"",":","[","{","\"","n","a","m","e","\"",":","\"","c","\"",",","\"","t","y","p","e","\"",":","\"","C","O","N","S","T","R","U","C","T","O","R","\"","}","]","}","]","}">>,
     value |-> JObj([tables |-> JArr(<<JObj([name |-> JStr(<<"t">>), columns |-> JArr(<<JObj([name |-> JStr(<<"c">>), type |-> JStr(<<"C","O","N","S","T","R","U","C","T","O","R">>)])>>)])>>)])],
     [text |-> <<"{","\"","t","a","b","l","e","s","\"",":","[","{","\"","n","a","m","e","\"",":","\"","t","\"",",","\"","c","o","l","u","m","n","s","\"",":","[","{","\"","n","a","m","e","\"",":","\"","c","\"",",","\"","t","y","p","e","\"",":","\"","_","_","p","r","o","t","o","_","_","\"","}","]","}","]","}">>,
     value |-> JObj([tables |-> JArr(<<JObj([name |-> JStr(<<"t">>), columns |-> JArr(<<JObj([name |-> JStr(<<"c">>), type |-> JStr(<<"_","_","p","r","o","t","o","_","_">>)])>>)])>>)])],
     [text |-> <<"{","\"","t","a","b","l","e","s","\"",":","[","{","\"","n","a","m","e","\"",":","\"","t","\"",",","\"","c","o","l","u","m","n","s","\"",":","[","{","\"","n","a","m","e","\"",":","\"","c","\"",",","\"","t","y","p","e","\"",":","\"","\"","}","]","}","]","}">>,
     value |-> JObj([tables |-> JArr(<<JObj([name |-> JStr(<<"t">>), columns |-> JArr(<<JObj([name |-> JStr(<<"c">>), type |-> JStr(<<>>)])>>)])>>)])],
     [text |-> <<"{","\"","m","o","d","e","l","s","\"",":","[","{","\"","n","a","m","e","\"",":","\"","A","\"",",","\"","f","i","e","l","d","s","\"",":","[","{","\"","n","a","m","e","\"",":","\"","i","d","\"",",","\"","t","y","p","e","\"",":","\"","I","n","t","\"",",","\"","i","s","I","d","\"",":","t","r","u","e","}","]","}","]","}">>,
     value |-> JObj([models |-> JArr(<<JObj([name |-> JStr(<<"A">>), fields |-> JArr(<<JObj([name |-> JStr(<<"i","d">>), type |-> JStr(<<"I","n","t">>), isId |-> JBool(TRUE)])>>)])>>)])],
     [text |-> <<"{","\"","m","o","d","e","l","s","\"",":","n","u","l","l",",","\"","t","a","b","l","e","s","\"",":","[","{","\"","n","a","m","e","\"",":","\"","b","\"",",","\"","c","o","l","u","m","n","s","\"",":","[","{","\"","n","a","m","e","\"",":","\"","i","d","\"",",","\"","t","y","p","e","\"",":","\"","i","n","t","\"","}","]","}","]","}">>,
     value |-> JObj([models |-> JNull, tables |-> JArr(<<JObj([name |-> JStr(<<"b">>), columns |-> JArr(<<JObj([name |-> JStr(<<"i","d">>), type |-> JStr(<<"i","n","t">>)])>>)])>>)])],
     [text |-> <<"{","\"","m","o","d","e","l","s","\"",":","[","]",",","\"","t","a","b","l","e","s","\"",":","[","{","\"","n","a","m","e","\"",":","\"","b","\"",",","\"","c","o","l","u","m","n","s","\"",":","[","{","\"","n","a","m","e","\"",":","\"","i","d","\"",",","\"","t","y","p","e","\"",":","\"","i","n","t","\"","}","]","}","]","}">>,
     value |-> JObj([models |-> JArr(<<>>), tables |-> JArr(<<JObj([name |-> JStr(<<"b">>), columns |-> JArr(<<JObj([name |-> JStr(<<"i","d">>), type |-> JStr(<<"i","n","t">>)])>>)])>>)])],
     [text |-> <<"{","\"","t","a","b","l","e","s","\"",":","[","{","\"","n","a","m","e","\"",":","\"","b","\"",",","\"","c","o","l","u","m","n","s","\"",":","[","{","\"","n","a","m","e","\"",":","\"","i","d","\"",",","\"","t","y","p","e","\"",":","\"","i","n","t","\"","}","]","}","]",",","\"","m","o","d","e","l","s","\"",":","[","{","\"","n","a","m","e","\"",":","\"","A","\"",",","\"","f","i","e","l","d","s","\"",":","[","{","\"","n","a","m","e","\"",":","\"","i","d","\"",",","\"","t","y","p","e","\"",":","\"","I","n","t","\"",",","\"","i","s","I","d","\"",":","t","r","u","e","}","]","}","]","}">>,
     value |-> JObj([tables |-> JArr(<<JObj([name |-> JStr(<<"b">>), columns |-> JArr(<<JObj([name |-> JStr(<<"i","d">>), type |-> JStr(<<"i","n","t">>)])>>)])>>), models |-> JArr(<<JObj([name |-> JStr(<<"A">>), fields |-> JArr(<<JObj([name |-> JStr(<<"i","d">>), type |-> JStr(<<"I","n","t">>), isId |-> JBool(TRUE)])>>)])>>)])],
     [text |-> <<"{","\"","e","n","u","m","s","\"",":","[","{","\"","n","a","m","e","\"",":","\"","R","o","l","e","\"",",","\"","v","a","l","u","e","s","\"",":","[","\"","X","\"",",","\"","Y","\"","]","}","]",",","\"","t","a","b","l","e","s","\"",":","[","{","\"","n","a","m","e","\"",":","\"","b","\"",",","\"","c","o","l","u","m","n","s","\"",":","[","{","\"","n","a","m","e","\"",":","\"","i","d","\"",",","\"","t","y","p","e","\"",":","\"","i","n","t","\"","}","]","}","]","}">>,
     value |-> JObj([enums |-> JArr(<<JObj([name |-> JStr(<<"R","o","l","e">>), values |-> JArr(<<JStr(<<"X">>), JStr(<<"Y">>)>>)])>>), tables |-> JArr(<<JObj([name |-> JStr(<<"b">>), columns |-> JArr(<<JObj([name |-> JStr(<<"i","d">>), type |-> JStr(<<"i","n","t">>)])>>)])>>)])],
     [text |-> <<"{","\"","e","n","u","m","s","\"",":","n","u","l","l",",","\"","s","c","h","e","m","a","s","\"",":","[","{","\"","n","a","m","e","\"",":","\"","c","\"",",","\"","c","o","l","u","m","n","s","\"",":","[","{","\"","n","a","m","e","\"",":","\"","i","d","\"",",","\"","t","y","p","e","\"",":","\"","i","n","t","\"","}","]","}","]","}">>,
     value |-> JObj([enums |-> JNull, schemas |-> JArr(<<JObj([name |-> JStr(<<"c">>), columns |-> JArr(<<JObj([name |-> JStr(<<"i","d">>), type |-> JStr(<<"i","n","t">>)])>>)])>>)])],
     [text |-> <<"{","\"","e","n","u","m","s","\"",":","[","]",",","\"","s","c","h","e","m","a","s","\"",":","[","{","\"","n","a","m","e","\"",":","\"","c","\"",",","\"","c","o","l","u","m","n","s","\"",":","[","{","\"","n","a","m","e","\"",":","\"","i","d","\"",",","\"","t","y","p","e","\"",":","\"","i","n","t","\"","}","]","}","]","}">>,
     value |-> JObj([enums |-> JArr(<<>>), schemas |-> JArr(<<JObj([name |-> JStr(<<"c">>), columns |-> JArr(<<JObj([name |-> JStr(<<"i","d">>), type |-> JStr(<<"i","n","t">>)])>>)])>>)])],
     [text |-> <<"{","\"","s","c","h","e","m","a","s","\"",":","[","{","\"","n","a","m","e","\"",":","\"","c","\"",",","\"","c","o","l","u","m","n","s","\"",":","[","{","\"","n","a","m","e","\"",":","\"","i","d","\"",",","\"","t","y","p","e","\"",":","\"","i","n","t","\"","}","]","}","]","}">>,
     value |-> JObj([schemas |-> JArr(<<JObj([name |-> JStr(<<"c">>), columns |-> JArr(<<JObj([name |-> JStr(<<"i","d">>), type |-> JStr(<<"i","n","t">>)])>>)])>>)])],
     [text |-> <<"{","\"","e","n","t","i","t","i","e","s","\"",":","[","{","\"","n","a","m","e","\"",":","\"","d","\"",",","\"","c","o","l","u","m","n","s","\"",":","[","{","\"","n","a","m","e","\"",":","\"","i","d","\"",",","\"","t","y","p","e","\"",":","\"","i","n","t","\"","}","]","}","]","}">>,
     value |-> JObj([entities |-> JArr(<<JObj([name |-> JStr(<<"d">>), columns |-> JArr(<<JObj([name |-> JStr(<<"i","d">>), type |-> JStr(<<"i","n","t">>)])>>)])>>)])],
     [text |-> <<"{","\"","m","o","d","e","l","s","\"",":","[","{","\"","n","a","m","e","\"",":","\"","A","\"",",","\"","f","i","e","l","d","s","\"",":","[","{","\"","n","a","m","e","\"",":","\"","i","d","\"",",","\"","t","y","p","e","\"",":","\"","I","n","t","\"",",","\"","i","s","I","d","\"",":","t","r","u","e","}","]","}","]",",","\"","e","n","t","i","t","i","e","s","\"",":","[","{","\"","n","a","m","e","\"",":","\"","d","\"",",","\"","c","o","l","u","m","n","s","\"",":","[","{","\"","n","a","m","e","\"",":","\"","i","d","\"",",","\"","t","y","p","e","\"",":","\"","i","n","t","\"","}","]","}","]","}">>,
     value |-> JObj([models |-> JArr(<<JObj([name |-> JStr(<<"A">>), fields |-> JArr(<<JObj([name |-> JStr(<<"i","d">>), type |-> JStr(<<"I","n","t">>), isId |-> JBool(TRUE)])>>)])>>), entities |-> JArr(<<JObj([name |-> JStr(<<"d">>), columns |-> JArr(<<JObj([name |-> JStr(<<"i","d">>), type |-> JStr(<<"i","n","t">>)])>>)])>>)])],
     [text |-> <<"{","\"","m","o","d","e","l","s","\"",":","[","{","\"","n","a","m","e","\"",":","\"","A","\"",",","\"","f","i","e","l","d","s","\"",":","[","{","\"","n","a","m","e","\"",":","\"","i","d","\"",",","\"","t","y","p","e","\"",":","\"","I","n","t","\"",",","\"","i","s","I","d","\"",":","t","r","u","e","}","]","}","]",",","\"","s","c","h","e","m","a","s","\"",":","[","{","\"","n","a","m","e","\"",":","\"","c","\"",",","\"","c","o","l","u","m","n","s","\"",":","[","{","\"","n","a","m","e","\"",":","\"","i","d","\"",",","\"","t","y","p","e","\"",":","\"","i","n","t","\"","}","]","}","]","}">>,
     value |-> JObj([models |-> JArr(<<JObj([name |-> JStr(<<"A">>), fields |-> JArr(<<JObj([name |-> JStr(<<"i","d">>), type |-> JStr(<<"I","n","t">>), isId |-> JBool(TRUE)])>>)])>>), schemas |-> JArr(<<JObj([name |-> JStr(<<"c">>), columns |-> JArr(<<JObj([name |-> JStr(<<"i","d">>), type |-> JStr(<<"i","n","t">>)])>>)])>>)])],
     [text |-> <<"{","\"","m","o","d","e","l","s","\"",":","0",",","\"","e","n","t","i","t","i","e","s","\"",":","[","{","\"","n","a","m","e","\"",":","\"","d","\"",",","\"","c","o","l","u","m","n","s","\"",":","[","{","\"","n","a","m","e","\"",":","\"","i","d","\"",",","\"","t","y","p","e","\"",":","\"","i","n","t","\"","}","]","}","]","}">>,
     value |-> JObj([models |-> JNum(0), entities |-> JArr(<<JObj([name |-> JStr(<<"d">>), columns |-> JArr(<<JObj([name |-> JStr(<<"i","d">>), type |-> JStr(<<"i","n","t">>)])>>)])>>)])],
     [text |-> <<"{","\"","m","o","d","e","l","s","\"",":","\"","\"",",","\"","t","a","b","l","e","s","\"",":","[","{","\"","n","a","m","e","\"",":","\"","b","\"",",","\"","c","o","l","u","m","n","s","\"",":","[","{","\"","n","a","m","e","\"",":","\"","i","d","\"",",","\"","t","y","p","e","\"",":","\"","i","n","t","\"","}","]","}","]","}">>,
     value |-> JObj([models |-> JStr(<<>>), tables |-> JArr(<<JObj([name |-> JStr(<<"b">>), columns |-> JArr(<<JObj([name |-> JStr(<<"i","d">>), type |-> JStr(<<"i","n","t">>)])>>)])>>)])],
     [text |-> <<"{","\"","m","o","d","e","l","s","\"",":","f","a","l","s","e","}">>,
     value |-> JObj([models |-> JBool(FALSE)])],
     [text |-> <<"{","\"","m","o","d","e","l","s","\"",":","{","\"","n","a","m","e","\"",":","\"","A","\"","}",",","\"","t","a","b","l","e","s","\"",":","[","{","\"","n","a","m","e","\"",":","\"","b","\"",",","\"","c","o","l","u","m","n","s","\"",":","[","{","\"","n","a","m","e","\"",":","\"","i","d","\"",",","\"","t","y","p","e","\"",":","\"","i","n","t","\"","}","]","}","]","}">>,
     value |-> JObj([models |-> JObj([name |-> JStr(<<"A">>)]), tables |-> JArr(<<JObj([name |-> JStr(<<"b">>), columns |-> JArr(<<JObj([name |-> JStr(<<"i","d">>), type |-> JStr(<<"i","n","t">>)])>>)])>>)])],
     [text |-> <<"{","\"","e","n","u","m","s","\"",":","f","a","l","s","e",",","\"","m","o","d","e","l","s","\"",":","n","u","l","l","}">>,
     value |-> JObj([enums |-> JBool(FALSE), models |-> JNull])],
     [text |-> <<"{","\"","t","a","b","l","e","s","\"",":","n","u","l","l","}">>,
     value |-> JObj([tables |-> JNull])],
     [text |-> <<"{","\"","t","a","b","l","e","s","\"",":","[","]","}">>,
     value |-> JObj([tables |-> JArr(<<>>)])],
     [text |-> <<"{","\"","n","a","m","e","\"",":","\"","A","\"",",","\"","f","i","e","l","d","s","\"",":","[","{","\"","n","a","m","e","\"",":","\"","i","d","\"",",","\"","t","y","p","e","\"",":","\"","I","n","t","\"","}","]","}">>,
     value |-> JObj([name |-> JStr(<<"A">>), fields |-> JArr(<<JObj([name |-> JStr(<<"i","d">>), type |-> JStr(<<"I","n","t">>)])>>)])],
     [text |-> <<"[","{","\"","n","a","m","e","\"",":","\"","A","\"",",","\"","f","i","e","l","d","s","\"",":","[","{","\"","n","a","m","e","\"",":","\"","i","d","\"",",","\"","t","y","p","e","\"",":","\"","I","n","t","\"",",","\"","i","s","I","d","\"",":","t","r","u","e","}","]","}","]">>,
     value |-> JArr(<<JObj([name |-> JStr(<<"A">>), fields |-> JArr(<<JObj([name |-> JStr(<<"i","d">>), type |-> JStr(<<"I","n","t">>), isId |-> JBool(TRUE)])>>)])>>)],
     [text |-> <<"[","{","\"","n","a","m","e","\"",":","\"","A","\"",",","\"","f","i","e","l","d","s","\"",":","[","{","\"","n","a","m","e","\"",":","\"","i","d","\"",",","\"","t","y","p","e","\"",":","\"","I","n","t","\"",",","\"","i","s","I","d","\"",":","t","r","u","e","}","]","}",",","{","\"","n","a","m","e","\"",":","\"","B","\"",",","\"","f","i","e","l","d","s","\"",":","[","{","\"","n","a","m","e","\"",":","\"","i","d","\"",",","\"","t","y","p","e","\"",":","\"","I","n","t","\"","}","]","}","]">>,
     value |-> JArr(<<JObj([name |-> JStr(<<"A">>), fields |-> JArr(<<JObj([name |-> JStr(<<"i","d">>), type |-> JStr(<<"I","n","t">>), isId |-> JBool(TRUE)])>>)]), JObj([name |-> JStr(<<"B">>), fields |-> JArr(<<JObj([name |-> JStr(<<"i","d">>), type |-> JStr(<<"I","n","t">>)])>>)])>>)],
     [text |-> <<"[","{","\"","n","a","m","e","\"",":","\"","A","\"","}","]">>,
     value |-> JArr(<<JObj([name |-> JStr(<<"A">>)])>>)],
     [text |-> <<"[","{","\"","f","i","e","l","d","s","\"",":","[","{","\"","n","a","m","e","\"",":","\"","i","d","\"",",","\"","t","y","p","e","\"",":","\"","I","n","t","\"","}","]","}","]">>,
     value |-> JArr(<<JObj([fields |-> JArr(<<JObj([name |-> JStr(<<"i","d">>), type |-> JStr(<<"I","n","t">>)])>>)])>>)],
     [text |-> <<"[","{","\"","n","a","m","e","\"",":","\"","A","\"",",","\"","f","i","e","l","d","s","\"",":","n","u","l","l","}","]">>,
     value |-> JArr(<<JObj([name |-> JStr(<<"A">>), fields |-> JNull])>>)],
     [text |-> <<"[","{","\"","n","a","m","e","\"",":","\"","\"",",","\"","f","i","e","l","d","s","\"",":","[","{","\"","n","a","m","e","\"",":","\"","i","d","\"",",","\"","t","y","p","e","\"",":","\"","I","n","t","\"","}","]","}","]">>,
     value |-> JArr(<<JObj([name |-> JStr(<<>>), fields |-> JArr(<<JObj([name |-> JStr(<<"i","d">>), type |-> JStr(<<"I","n","t">>)])>>)])>>)],
     [text |-> <<"[","{","\"","n","a","m","e","\"",":","\"","A","\"",",","\"","f","i","e","l","d","s","\"",":","[","]","}","]">>,
     value |-> JArr(<<JObj([name |-> JStr(<<"A">>), fields |-> JArr(<<>>)])>>)],
     [text |-> <<"[","{","\"","t","i","t","l","e","\"",":","\"","x","\"","}",",","{","\"","n","a","m","e","\"",":","\"","A","\"",",","\"","f","i","e","l","d","s","\"",":","[","{","\"","n","a","m","e","\"",":","\"","i","d","\"",",","\"","t","y","p","e","\"",":","\"","I","n","t","\"",",","\"","i","s","I","d","\"",":","t","r","u","e","}","]","}","]">>,
     value |-> JArr(<<JObj([title |-> JStr(<<"x">>)]), JObj([name |-> JStr(<<"A">>), fields |-> JArr(<<JObj([name |-> JStr(<<"i","d">>), type |-> JStr(<<"I","n","t">>), isId |-> JBool(TRUE)])>>)])>>)],
     [text |-> <<"[","n","u","l","l",",","{","\"","n","a","m","e","\"",":","\"","A","\"",",","\"","f","i","e","l","d","s","\"",":","[","{","\"","n","a","m","e","\"",":","\"","i","d","\"",",","\"","t","y","p","e","\"",":","\"","I","n","t","\"",",","\"","i","s","I","d","\"",":","t","r","u","e","}","]","}","]">>,
     value |-> JArr(<<JNull, JObj([name |-> JStr(<<"A">>), fields |-> JArr(<<JObj([name |-> JStr(<<"i","d">>), type |-> JStr(<<"I","n","t">>), isId |-> JBool(TRUE)])>>)])>>)],
     [text |-> <<"[","{","\"","n","a","m","e","\"",":","\"","b","\"",",","\"","c","o","l","u","m","n","s","\"",":","[","{","\"","n","a","m","e","\"",":","\"","i","d","\"",",","\"","t","y","p","e","\"",":","\"","i","n","t","\"","}","]","}",",","n","u","l","l","]">>,
     value |-> JArr(<<JObj([name |-> JStr(<<"b">>), columns |-> JArr(<<JObj([name |-> JStr(<<"i","d">>), type |-> JStr(<<"i","n","t">>)])>>)]), JNull>>)],
     [text |-> <<"\"","m","o","d","e","l","s","\"">>,
     value |-> JStr(<<"m","o","d","e","l","s">>)],
     [text |-> <<"t","r","u","e">>,
     value |-> JBool(TRUE)],
     [text |-> <<"{","}">>,
     value |-> JObj(<<>>)],
     [text |-> <<"{","\"","t","a","b","l","e","s","\"",":","[","{","\"","n","a","m","e","\"",":","\"","t","\"",",","\"","c","o","l","u","m","n","s","\"",":","[","{","\"","n","a","m","e","\"",":","\"","d","\"",",","\"","t","y","p","e","\"",":","\"","i","n","t","\"",",","\"","d","e","f","a","u","l","t","\"",":","\"","n","o","w","\"","}","]","}","]","}">>,
     value |-> JObj([tables |-> JArr(<<JObj([name |-> JStr(<<"t">>), columns |-> JArr(<<JObj([name |-> JStr(<<"d">>), type |-> JStr(<<"i","n","t">>), default |-> JStr(<<"n","o","w">>)])>>)])>>)])],
     [text |-> <<"{","\"","t","a","b","l","e","s","\"",":","[","{","\"","n","a","m","e","\"",":","\"","t","\"",",","\"","c","o","l","u","m","n","s","\"",":","[","{","\"","n","a","m","e","\"",":","\"","d","\"",",","\"","t","y","p","e","\"",":","\"","i","n","t","\"",",","\"","d","e","f","a","u","l","t","\"",":","\"","C","U","R","R","E","N","T","_","T","I","M","E","S","T","A","M","P","\"","}","]","}","]","}">>,
     value |-> JObj([tables |-> JArr(<<JObj([name |-> JStr(<<"t">>), columns |-> JArr(<<JObj([name |-> JStr(<<"d">>), type |-> JStr(<<"i","n","t">>), default |-> JStr(<<"C","U","R","R","E","N","T","_","T","I","M","E","S","T","A","M","P">>)])>>)])>>)])],
     [text |-> <<"{","\"","t","a","b","l","e","s","\"",":","[","{","\"","n","a","m","e","\"",":","\"","t","\"",",","\"","c","o","l","u","m","n","s","\"",":","[","{","\"","n","a","m","e","\"",":","\"","d","\"",",","\"","t","y","p","e","\"",":","\"","i","n","t","\"",",","\"","d","e","f","a","u","l","t","\"",":","\"","a","b","c","\"","}","]","}","]","}">>,
     value |-> JObj([tables |-> JArr(<<JObj([name |-> JStr(<<"t">>), columns |-> JArr(<<JObj([name |-> JStr(<<"d">>), type |-> JStr(<<"i","n","t">>), default |-> JStr(<<"a","b","c">>)])>>)])>>)])],
     [text |-> <<"{","\"","t","a","b","l","e","s","\"",":","[","{","\"","n","a","m","e","\"",":","\"","t","\"",",","\"","c","o","l","u","m","n","s","\"",":","[","{","\"","n","a","m","e","\"",":","\"","d","\"",",","\"","t","y","p","e","\"",":","\"","i","n","t","\"",",","\"","d","e","f","a","u","l","t","\"",":","\"","u","u","i","d","(",")","\"","}","]","}","]","}">>,
     value |-> JObj([tables |-> JArr(<<JObj([name |-> JStr(<<"t">>), columns |-> JArr(<<JObj([name |-> JStr(<<"d">>), type |-> JStr(<<"i","n","t">>), default |-> JStr(<<"u","u","i","d","(",")">>)])>>)])>>)])],
     [text |-> <<"{","\"","t","a","b","l","e","s","\"",":","[","{","\"","n","a","m","e","\"",":","\"","t","\"",",","\"","c","o","l","u","m","n","s","\"",":","[","{","\"","n","a","m","e","\"",":","\"","d","\"",",","\"","t","y","p","e","\"",":","\"","i","n","t","\"",",","\"","d","e","f","a","u","l","t","\"",":","5","}","]","}","]","}">>,
     value |-> JObj([tables |-> JArr(<<JObj([name |-> JStr(<<"t">>), columns |-> JArr(<<JObj([name |-> JStr(<<"d">>), type |-> JStr(<<"i","n","t">>), default |-> JNum(5)])>>)])>>)])],
     [text |-> <<"{","\"","t","a","b","l","e","s","\"",":","[","{","\"","n","a","m","e","\"",":","\"","t","\"",",","\"","c","o","l","u","m","n","s","\"",":","[","{","\"","n","a","m","e","\"",":","\"","d","\"",",","\"","t","y","p","e","\"",":","\"","i","n","t","\"",",","\"","d","e","f","a","u","l","t","\"",":","0","}","]","}","]","}">>,
     value |-> JObj([tables |-> JArr(<<JObj([name |-> JStr(<<"t">>), columns |-> JArr(<<JObj([name |-> JStr(<<"d">>), type |-> JStr(<<"i","n","t">>), default |-> JNum(0)])>>)])>>)])],
     [text |-> <<"{","\"","t","a","b","l","e","s","\"",":","[","{","\"","n","a","m","e","\"",":","\"","t","\"",",","\"","c","o","l","u","m","n","s","\"",":","[","{","\"","n","a","m","e","\"",":","\"","d","\"",",","\"","t","y","p","e","\"",":","\"","i","n","t","\"",",","\"","d","e","f","a","u","l","t","\"",":","t","r","u","e","}","]","}","]","}">>,
     value |-> JObj([tables |-> JArr(<<JObj([name |-> JStr(<<"t">>), columns |-> JArr(<<JObj([name |-> JStr(<<"d">>), type |-> JStr(<<"i","n","t">>), default |-> JBool(TRUE)])>>)])>>)])],
     [text |-> <<"{","\"","t","a","b","l","e","s","\"",":","[","{","\"","n","a","m","e","\"",":","\"","t","\"",",","\"","c","o","l","u","m","n","s","\"",":","[","{","\"","n","a","m","e","\"",":","\"","d","\"",",","\"","t","y","p","e","\"",":","\"","i","n","t","\"",",","\"","d","e","f","a","u","l","t","\"",":","f","a","l","s","e","}","]","}","]","}">>,
     value |-> JObj([tables |-> JArr(<<JObj([name |-> JStr(<<"t">>), columns |-> JArr(<<JObj([name |-> JStr(<<"d">>), type |-> JStr(<<"i","n","t">>), default |-> JBool(FALSE)])>>)])>>)])],
     [text |-> <<"{","\"","t","a","b","l","e","s","\"",":","[","{","\"","n","a","m","e","\"",":","\"","t","\"",",","\"","c","o","l","u","m","n","s","\"",":","[","{","\"","n","a","m","e","\"",":","\"","d","\"",",","\"","t","y","p","e","\"",":","\"","i","n","t","\"",",","\"","d","e","f","a","u","l","t","\"",":","\"","\"","}","]","}","]","}">>,
     value |-> JObj([tables |-> JArr(<<JObj([name |-> JStr(<<"t">>), columns |-> JArr(<<JObj([name |-> JStr(<<"d">>), type |-> JStr(<<"i","n","t">>), default |-> JStr(<<>>)])>>)])>>)])],
     [text |-> <<"{","\"","t","a","b","l","e","s","\"",":","[","{","\"","n","a","m","e","\"",":","\"","t","\"",",","\"","c","o","l","u","m","n","s","\"",":","[","{","\"","n","a","m","e","\"",":","\"","d","\"",",","\"","t","y","p","e","\"",":","\"","i","n","t","\"",",","\"","d","e","f","a","u","l","t","V","a","l","u","e","\"",":","\"","n","o","w","\"","}","]","}","]","}">>,
     value |-> JObj([tables |-> JArr(<<JObj([name |-> JStr(<<"t">>), columns |-> JArr(<<JObj([name |-> JStr(<<"d">>), type |-> JStr(<<"i","n","t">>), defaultValue |-> JStr(<<"n","o","w">>)])>>)])>>)])],
     [text |-> <<"{","\"","t","a","b","l","e","s","\"",":","[","{","\"","n","a","m","e","\"",":","\"","t","\"",",","\"","c","o","l","u","m","n","s","\"",":","[","{","\"","n","a","m","e","\"",":","\"","d","\"",",","\"","t","y","p","e","\"",":","\"","i","n","t","\"",",","\"","d","e","f","a","u","l","t","V","a","l","u","e","\"",":","\"","C","U","R","R","E","N","T","_","T","I","M","E","S","T","A","M","P","\"","}","]","}","]","}">>,
     value |-> JObj([tables |-> JArr(<<JObj([name |-> JStr(<<"t">>), columns |-> JArr(<<JObj([name |-> JStr(<<"d">>), type |-> JStr(<<"i","n","t">>), defaultValue |-> JStr(<<"C","U","R","R","E","N","T","_","T","I","M","E","S","T","A","M","P">>)])>>)])>>)])],
     [text |-> <<"{","\"","t","a","b","l","e","s","\"",":","[","{","\"","n","a","m","e","\"",":","\"","t","\"",",","\"","c","o","l","u","m","n","s","\"",":","[","{","\"","n","a","m","e","\"",":","\"","d","\"",",","\"","t","y","p","e","\"",":","\"","i","n","t","\"",",","\"","d","e","f","a","u","l","t","V","a","l","u","e","\"",":","\"","a","b","c","\"","}","]","}","]","}">>,
     value |-> JObj([tables |-> JArr(<<JObj([name |-> JStr(<<"t">>), columns |-> JArr(<<JObj([name |-> JStr(<<"d">>), type |-> JStr(<<"i","n","t">>), defaultValue |-> JStr(<<"a","b","c">>)])>>)])>>)])],
     [text |-> <<"{","\"","t","a","b","l","e","s","\"",":","[","{","\"","n","a","m","e","\"",":","\"","t","\"",",","\"","c","o","l","u","m","n","s","\"",":","[","{","\"","n","a","m","e","\"",":","\"","d","\"",",","\"","t","y","p","e","\"",":","\"","i","n","t","\"",",","\"","d","e","f","a","u","l","t","V","a","l","u","e","\"",":","\"","u","u","i","d","(",")","\"","}","]","}","]","}">>,
     value |-> JObj([tables |-> JArr(<<JObj([name |-> JStr(<<"t">>), columns |-> JArr(<<JObj([name |-> JStr(<<"d">>), type |-> JStr(<<"i","n","t">>), defaultValue |-> JStr(<<"u","u","i","d","(",")">>)])>>)])>>)])],
     [text |-> <<"{","\"","t","a","b","l","e","s","\"",":","[","{","\"","n","a","m","e","\"",":","\"","t","\"",",","\"","c","o","l","u","m","n","s","\"",":","[","{","\"","n","a","m","e","\"",":","\"","d","\"",",","\"","t","y","p","e","\"",":","\"","i","n","t","\"",",","\"","d","e","f","a","u","l","t","V","a","l","u","e","\"",":","5","}","]","}","]","}">>,
     value |-> JObj([tables |-> JArr(<<JObj([name |-> JStr(<<"t">>), columns |-> JArr(<<JObj([name |-> JStr(<<"d">>), type |-> JStr(<<"i","n","t">>), defaultValue |-> JNum(5)])>>)])>>)])],
     [text |-> <<"{","\"","t","a","b","l","e","s","\"",":","[","{","\"","n","a","m","e","\"",":","\"","t","\"",",","\"","c","o","l","u","m","n","s","\"",":","[","{","\"","n","a","m","e","\"",":","\"","d","\"",",","\"","t","y","p","e","\"",":","\"","i","n","t","\"",",","\"","d","e","f","a","u","l","t","V","a","l","u","e","\"",":","0","}","]","}","]","}">>,
     value |-> JObj([tables |-> JArr(<<JObj([name |-> JStr(<<"t">>), columns |-> JArr(<<JObj([name |-> JStr(<<"d">>), type |-> JStr(<<"i","n","t">>), defaultValue |-> JNum(0)])>>)])>>)])],
     [text |-> <<"{","\"","t","a","b","l","e","s","\"",":","[","{","\"","n","a","m","e","\"",":","\"","t","\"",",","\"","c","o","l","u","m","n","s","\"",":","[","{","\"","n","a","m","e","\"",":","\"","d","\"",",","\"","t","y","p","e","\"",":","\"","i","n","t","\"",",","\"","d","e","f","a","u","l","t","V","a","l","u","e","\"",":","t","r","u","e","}","]","}","]","}">>,
     value |-> JObj([tables |-> JArr(<<JObj([name |-> JStr(<<"t">>), columns |-> JArr(<<JObj([name |-> JStr(<<"d">>), type |-> JStr(<<"i","n","t">>), defaultValue |-> JBool(TRUE)])>>)])>>)])],
     [text |-> <<"{","\"","t","a","b","l","e","s","\"",":","[","{","\"","n","a","m","e","\"",":","\"","t","\"",",","\"","c","o","l","u","m","n","s","\"",":","[","{","\"","n","a","m","e","\"",":","\"","d","\"",",","\"","t","y","p","e","\"",":","\"","i","n","t","\"",",","\"","d","e","f","a","u","l","t","V","a","l","u","e","\"",":","f","a","l","s","e","}","]","}","]","}">>,
     value |-> JObj([tables |-> JArr(<<JObj([name |-> JStr(<<"t">>), columns |-> JArr(<<JObj([name |-> JStr(<<"d">>), type |-> JStr(<<"i","n","t">>), defaultValue |-> JBool(FALSE)])>>)])>>)])],
     [text |-> <<"{","\"","t","a","b","l","e","s","\"",":","[","{","\"","n","a","m","e","\"",":","\"","t","\"",",","\"","c","o","l","u","m","n","s","\"",":","[","{","\"","n","a","m","e","\"",":","\"","d","\"",",","\"","t","y","p","e","\"",":","\"","i","n","t","\"",",","\"","d","e","f","a","u","l","t","V","a","l","u","e","\"",":","\"","\"","}","]","}","]","}">>,
     value |-> JObj([tables |-> JArr(<<JObj([name |-> JStr(<<"t">>), columns |-> JArr(<<JObj([name |-> JStr(<<"d">>), type |-> JStr(<<"i","n","t">>), defaultValue |-> JStr(<<>>)])>>)])>>)])],
     [text |-> <<"{","\"","m","o","d","e","l","s","\"",":","[","{","\"","n","a","m","e","\"",":","\"","T","\"",",","\"","f","i","e","l","d","s","\"",":","[","{","\"","n","a","m","e","\"",":","\"","d","\"",",","\"","t","y","p","e","\"",":","\"","I","n","t","\"",",","\"","d","e","f","a","u","l","t","\"",":","{","\"","n","a","m","e","\"",":","\"","n","o","w","\"","}","}","]","}","]","}">>,
     value |-> JObj([models |-> JArr(<<JObj([name |-> JStr(<<"T">>), fields |-> JArr(<<JObj([name |-> JStr(<<"d">>), type |-> JStr(<<"I","n","t">>), default |-> JObj([name |-> JStr(<<"n","o","w">>)])])>>)])>>)])],
     [text |-> <<"{","\"","m","o","d","e","l","s","\"",":","[","{","\"","n","a","m","e","\"",":","\"","T","\"",",","\"","f","i","e","l","d","s","\"",":","[","{","\"","n","a","m","e","\"",":","\"","d","\"",",","\"","t","y","p","e","\"",":","\"","I","n","t","\"",",","\"","d","e","f","a","u","l","t","\"",":","{","\"","n","a","m","e","\"",":","\"","a","u","t","o","i","n","c","r","e","m","e","n","t","\"","}","}","]","}","]","}">>,
     value |-> JObj([models |-> JArr(<<JObj([name |-> JStr(<<"T">>), fields |-> JArr(<<JObj([name |-> JStr(<<"d">>), type |-> JStr(<<"I","n","t">>), default |-> JObj([name |-> JStr(<<"a","u","t","o","i","n","c","r","e","m","e","n","t">>)])])>>)])>>)])],
     [text |-> <<"{","\"","m","o","d","e","l","s","\"",":","[","{","\"","n","a","m","e","\"",":","\"","T","\"",",","\"","f","i","e","l","d","s","\"",":","[","{","\"","n","a","m","e","\"",":","\"","d","\"",",","\"","t","y","p","e","\"",":","\"","I","n","t","\"",",","\"","d","e","f","a","u","l","t","\"",":","{","\"","n","a","m","e","\"",":","\"","u","u","i","d","\"","}","}","]","}","]","}">>,
     value |-> JObj([models |-> JArr(<<JObj([name |-> JStr(<<"T">>), fields |-> JArr(<<JObj([name |-> JStr(<<"d">>), type |-> JStr(<<"I","n","t">>), default |-> JObj([name |-> JStr(<<"u","u","i","d">>)])])>>)])>>)])],
     [text |-> <<"{","\"","m","o","d","e","l","s","\"",":","[","{","\"","n","a","m","e","\"",":","\"","T","\"",",","\"","f","i","e","l","d","s","\"",":","[","{","\"","n","a","m","e","\"",":","\"","d","\"",",","\"","t","y","p","e","\"",":","\"","I","n","t","\"",",","\"","d","e","f","a","u","l","t","\"",":","{","\"","n","a","m","e","\"",":","\"","c","u","i","d","\"","}","}","]","}","]","}">>,
     value |-> JObj([models |-> JArr(<<JObj([name |-> JStr(<<"T">>), fields |-> JArr(<<JObj([name |-> JStr(<<"d">>), type |-> JStr(<<"I","n","t">>), default |-> JObj([name |-> JStr(<<"c","u","i","d">>)])])>>)])>>)])],
     [text |-> <<"{","\"","m","o","d","e","l","s","\"",":","[","{","\"","n","a","m","e","\"",":","\"","T","\"",",","\"","f","i","e","l","d","s","\"",":","[","{","\"","n","a","m","e","\"",":","\"","d","\"",",","\"","t","y","p","e","\"",":","\"","I","n","t","\"",",","\"","d","e","f","a","u","l","t","\"",":","{","\"","n","a","m","e","\"",":","\"","d","b","g","e","n","e","r","a","t","e","d","\"",",","\"","a","r","g","s","\"",":","[","]","}","}","]","}","]","}">>,
     value |-> JObj([models |-> JArr(<<JObj([name |-> JStr(<<"T">>), fields |-> JArr(<<JObj([name |-> JStr(<<"d">>), type |-> JStr(<<"I","n","t">>), default |-> JObj([name |-> JStr(<<"d","b","g","e","n","e","r","a","t","e","d">>), args |-> JArr(<<>>)])])>>)])>>)])],
     [text |-> <<"{","\"","m","o","d","e","l","s","\"",":","[","{","\"","n","a","m","e","\"",":","\"","T","\"",",","\"","f","i","e","l","d","s","\"",":","[","{","\"","n","a","m","e","\"",":","\"","d","\"",",","\"","t","y","p","e","\"",":","\"","I","n","t","\"",",","\"","d","e","f","a","u","l","t","\"",":","5","}","]","}","]","}">>,
     value |-> JObj([models |-> JArr(<<JObj([name |-> JStr(<<"T">>), fields |-> JArr(<<JObj([name |-> JStr(<<"d">>), type |-> JStr(<<"I","n","t">>), default |-> JNum(5)])>>)])>>)])],
     [text |-> <<"{","\"","m","o","d","e","l","s","\"",":","[","{","\"","n","a","m","e","\"",":","\"","T","\"",",","\"","f","i","e","l","d","s","\"",":","[","{","\"","n","a","m","e","\"",":","\"","d","\"",",","\"","t","y","p","e","\"",":","\"","I","n","t","\"",",","\"","d","e","f","a","u","l","t","\"",":","0","}","]","}","]","}">>,
     value |-> JObj([models |-> JArr(<<JObj([name |-> JStr(<<"T">>), fields |-> JArr(<<JObj([name |-> JStr(<<"d">>), type |-> JStr(<<"I","n","t">>), default |-> JNum(0)])>>)])>>)])],
     [text |-> <<"{","\"","m","o","d","e","l","s","\"",":","[","{","\"","n","a","m","e","\"",":","\"","T","\"",",","\"","f","i","e","l","d","s","\"",":","[","{","\"","n","a","m","e","\"",":","\"","d","\"",",","\"","t","y","p","e","\"",":","\"","I","n","t","\"",",","\"","d","e","f","a","u","l","t","\"",":","\"","a","b","c","\"","}","]","}","]","}">>,
     value |-> JObj([models |-> JArr(<<JObj([name |-> JStr(<<"T">>), fields |-> JArr(<<JObj([name |-> JStr(<<"d">>), type |-> JStr(<<"I","n","t">>), default |-> JStr(<<"a","b","c">>)])>>)])>>)])],
     [text |-> <<"{","\"","m","o","d","e","l","s","\"",":","[","{","\"","n","a","m","e","\"",":","\"","T","\"",",","\"","f","i","e","l","d","s","\"",":","[","{","\"","n","a","m","e","\"",":","\"","d","\"",",","\"","t","y","p","e","\"",":","\"","I","n","t","\"",",","\"","d","e","f","a","u","l","t","\"",":","t","r","u","e","}","]","}","]","}">>,
     value |-> JObj([models |-> JArr(<<JObj([name |-> JStr(<<"T">>), fields |-> JArr(<<JObj([name |-> JStr(<<"d">>), type |-> JStr(<<"I","n","t">>), default |-> JBool(TRUE)])>>)])>>)])],
     [text |-> <<"{","\"","m","o","d","e","l","s","\"",":","[","{","\"","n","a","m","e","\"",":","\"","T","\"",",","\"","f","i","e","l","d","s","\"",":","[","{","\"","n","a","m","e","\"",":","\"","d","\"",",","\"","t","y","p","e","\"",":","\"","I","n","t","\"",",","\"","d","e","f","a","u","l","t","\"",":","f","a","l","s","e","}","]","}","]","}">>,
     value |-> JObj([models |-> JArr(<<JObj([name |-> JStr(<<"T">>), fields |-> JArr(<<JObj([name |-> JStr(<<"d">>), type |-> JStr(<<"I","n","t">>), default |-> JBool(FALSE)])>>)])>>)])],
     [text |-> <<"{","\"","m","o","d","e","l","s","\"",":","[","{","\"","n","a","m","e","\"",":","\"","T","\"",",","\"","f","i","e","l","d","s","\"",":","[","{","\"","n","a","m","e","\"",":","\"","d","\"",",","\"","t","y","p","e","\"",":","\"","I","n","t","\"",",","\"","i","s","I","d","\"",":","t","r","u","e",",","\"","h","a","s","D","e","f","a","u","l","t","V","a","l","u","e","\"",":","t","r","u","e",",","\"","d","e","f","a","u","l","t","\"",":","{","\"","n","a","m","e","\"",":","\"","a","u","t","o","i","n","c","r","e","m","e","n","t","\"","}","}","]","}","]","}">>,
     value |-> JObj([models |-> JArr(<<JObj([name |-> JStr(<<"T">>), fields |-> JArr(<<JObj([name |-> JStr(<<"d">>), type |-> JStr(<<"I","n","t">>), isId |-> JBool(TRUE), hasDefaultValue |-> JBool(TRUE), default |-> JObj([name |-> JStr(<<"a","u","t","o","i","n","c","r","e","m","e","n","t">>)])])>>)])>>)])],
     \* a string where a list is expected, a list that is an object with a
     \* length, null in a list, a negative number
     [text |-> <<"{","\"","m","o","d","e","l","s","\"",":","[","{","\"","n","a","m","e","\"",":","\"","A","\"",",","\"","f","i","e","l","d","s","\"",":","\"","a","b","\"","}","]","}">>,
     value |-> JObj([models |-> JArr(<<JObj([name |-> JStr(<<"A">>), fields |-> JStr(<<"a","b">>)])>>)])],
     [text |-> <<"{","\"","m","o","d","e","l","s","\"",":","[","]",",","\"","e","n","u","m","s","\"",":","[","{","\"","n","a","m","e","\"",":","\"","E","\"",",","\"","v","a","l","u","e","s","\"",":","\"","A","B","\"","}","]","}">>,
     value |-> JObj([models |-> JArr(<<>>), enums |-> JArr(<<JObj([name |-> JStr(<<"E">>), values |-> JStr(<<"A","B">>)])>>)])],
     [text |-> <<"{","\"","t","a","b","l","e","s","\"",":","[","{","\"","n","a","m","e","\"",":","\"","t","\"",",","\"","f","i","e","l","d","s","\"",":","\"","a","b","\"","}","]","}">>,
     value |-> JObj([tables |-> JArr(<<JObj([name |-> JStr(<<"t">>), fields |-> JStr(<<"a","b">>)])>>)])],
     [text |-> <<"{","\"","t","a","b","l","e","s","\"",":","[","{","\"","n","a","m","e","\"",":","\"","t","\"",",","\"","f","i","e","l","d","s","\"",":","[","]",",","\"","r","e","l","a","t","i","o","n","s","\"",":","\"","a","b","\"","}","]","}">>,
     value |-> JObj([tables |-> JArr(<<JObj([name |-> JStr(<<"t">>), fields |-> JArr(<<>>), relations |-> JStr(<<"a","b">>)])>>)])],
     [text |-> <<"{","\"","m","o","d","e","l","s","\"",":","[","{","\"","n","a","m","e","\"",":","\"","A","\"",",","\"","f","i","e","l","d","s","\"",":","[","{","\"","n","a","m","e","\"",":","\"","a","\"",",","\"","t","y","p","e","\"",":","\"","U","\"",",","\"","r","e","l","a","t","i","o","n","N","a","m","e","\"",":","\"","R","\"",",","\"","r","e","l","a","t","i","o","n","F","r","o","m","F","i","e","l","d","s","\"",":","{","\"","l","e","n","g","t","h","\"",":","1","}",",","\"","r","e","l","a","t","i","o","n","T","o","F","i","e","l","d","s","\"",":","[","\"","i","d","\"","]","}","]","}","]","}">>,
     value |-> JObj([models |-> JArr(<<JObj([name |-> JStr(<<"A">>), fields |-> JArr(<<JObj([name |-> JStr(<<"a">>), type |-> JStr(<<"U">>), relationName |-> JStr(<<"R">>), relationFromFields |-> JObj([length |-> JNum(1)]), relationToFields |-> JArr(<<JStr(<<"i","d">>)>>)])>>)])>>)])],
     [text |-> <<"{","\"","m","o","d","e","l","s","\"",":","[","{","\"","n","a","m","e","\"",":","\"","A","\"",",","\"","f","i","e","l","d","s","\"",":","[","{","\"","n","a","m","e","\"",":","\"","a","\"",",","\"","t","y","p","e","\"",":","\"","U","\"",",","\"","r","e","l","a","t","i","o","n","N","a","m","e","\"",":","\"","R","\"",",","\"","r","e","l","a","t","i","o","n","F","r","o","m","F","i","e","l","d","s","\"",":","[","\"","x","\"","]",",","\"","r","e","l","a","t","i","o","n","T","o","F","i","e","l","d","s","\"",":","{","\"","l","e","n","g","t","h","\"",":","\"","0","\"","}","}","]","}","]","}">>,
     value |-> JObj([models |-> JArr(<<JObj([name |-> JStr(<<"A">>), fields |-> JArr(<<JObj([name |-> JStr(<<"a">>), type |-> JStr(<<"U">>), relationName |-> JStr(<<"R">>), relationFromFields |-> JArr(<<JStr(<<"x">>)>>), relationToFields |-> JObj([length |-> JStr(<<"0">>)])])>>)])>>)])],
     [text |-> <<"{","\"","m","o","d","e","l","s","\"",":","[","{","\"","n","a","m","e","\"",":","\"","A","\"",",","\"","f","i","e","l","d","s","\"",":","[","{","\"","n","a","m","e","\"",":","\"","a","\"",",","\"","t","y","p","e","\"",":","\"","U","\"",",","\"","r","e","l","a","t","i","o","n","N","a","m","e","\"",":","\"","R","\"",",","\"","r","e","l","a","t","i","o","n","F","r","o","m","F","i","e","l","d","s","\"",":","[","n","u","l","l",",","\"","x","\"","]",",","\"","r","e","l","a","t","i","o","n","T","o","F","i","e","l","d","s","\"",":","[","\"","i","d","\"","]","}","]","}","]","}">>,
     value |-> JObj([models |-> JArr(<<JObj([name |-> JStr(<<"A">>), fields |-> JArr(<<JObj([name |-> JStr(<<"a">>), type |-> JStr(<<"U">>), relationName |-> JStr(<<"R">>), relationFromFields |-> JArr(<<JNull, JStr(<<"x">>)>>), relationToFields |-> JArr(<<JStr(<<"i","d">>)>>)])>>)])>>)])],
     [text |-> <<"{","\"","t","a","b","l","e","s","\"",":","[","{","\"","n","a","m","e","\"",":","\"","t","\"",",","\"","c","o","l","u","m","n","s","\"",":","[","{","\"","n","a","m","e","\"",":","\"","d","\"",",","\"","t","y","p","e","\"",":","\"","i","n","t","\"",",","\"","d","e","f","a","u","l","t","\"",":","-","3","}","]","}","]","}">>,
     value |-> JObj([tables |-> JArr(<<JObj([name |-> JStr(<<"t">>), columns |-> JArr(<<JObj([name |-> JStr(<<"d">>), type |-> JStr(<<"i","n","t">>), default |-> JNum(-3)])>>)])>>)])],
     [text |-> <<"{","\"","t","a","b","l","e","s","\"",":","[","{","\"","n","a","m","e","\"",":","\"","t","\"",",","\"","c","o","l","u","m","n","s","\"",":","[","{","\"","n","a","m","e","\"",":","\"","d","\"",",","\"","t","y","p","e","\"",":","\"","i","n","t","\"",",","\"","d","e","f","a","u","l","t","\"",":","[","n","u","l","l","]","}","]","}","]","}">>,
     value |-> JObj([tables |-> JArr(<<JObj([name |-> JStr(<<"t">>), columns |-> JArr(<<JObj([name |-> JStr(<<"d">>), type |-> JStr(<<"i","n","t">>), default |-> JArr(<<JNull>>)])>>)])>>)])],
     \* an object with a property toString of its own where a text is made
     \* or a number is compared
     [text |-> <<"{","\"","m","o","d","e","l","s","\"",":","[","{","\"","n","a","m","e","\"",":","{","\"","t","o","S","t","r","i","n","g","\"",":","1","}",",","\"","f","i","e","l","d","s","\"",":","[","]","}","]","}">>,
     value |-> JObj([models |-> JArr(<<JObj([name |-> JObj([toString |-> JNum(1)]), fields |-> JArr(<<>>)])>>)])],
     [text |-> <<"{","\"","m","o","d","e","l","s","\"",":","[","{","\"","n","a","m","e","\"",":","\"","A","\"",",","\"","f","i","e","l","d","s","\"",":","[","{","\"","n","a","m","e","\"",":","\"","a","\"",",","\"","t","y","p","e","\"",":","\"","U","\"",",","\"","r","e","l","a","t","i","o","n","N","a","m","e","\"",":","\"","R","\"",",","\"","r","e","l","a","t","i","o","n","F","r","o","m","F","i","e","l","d","s","\"",":","{","\"","l","e","n","g","t","h","\"",":","{","\"","t","o","S","t","r","i","n","g","\"",":","1","}","}",",","\"","r","e","l","a","t","i","o","n","T","o","F","i","e","l","d","s","\"",":","[","\"","i","d","\"","]","}","]","}","]","}">>,
     value |-> JObj([models |-> JArr(<<JObj([name |-> JStr(<<"A">>), fields |-> JArr(<<JObj([name |-> JStr(<<"a">>), type |-> JStr(<<"U">>), relationName |-> JStr(<<"R">>), relationFromFields |-> JObj([length |-> JObj([toString |-> JNum(1)])]), relationToFields |-> JArr(<<JStr(<<"i","d">>)>>)])>>)])>>)])],
     [text |-> <<"{","\"","t","a","b","l","e","s","\"",":","[","{","\"","n","a","m","e","\"",":","\"","t","\"",",","\"","c","o","l","u","m","n","s","\"",":","[","{","\"","n","a","m","e","\"",":","\"","d","\"",",","\"","t","y","p","e","\"",":","\"","i","n","t","\"",",","\"","d","e","f","a","u","l","t","\"",":","{","\"","t","o","S","t","r","i","n","g","\"",":","n","u","l","l","}","}","]","}","]","}">>,
     value |-> JObj([tables |-> JArr(<<JObj([name |-> JStr(<<"t">>), columns |-> JArr(<<JObj([name |-> JStr(<<"d">>), type |-> JStr(<<"i","n","t">>), default |-> JObj([toString |-> JNull])])>>)])>>)])],
     \* a text where a list is expected, holding a character outside the
     \* Basic Multilingual Plane: the loop takes it as one element
     [text |-> <<"{","\"","e","n","u","m","s","\"",":","[","{","\"","n","a","m","e","\"",":","\"","M","o","o","d","\"",",","\"","v","a","l","u","e","s","\"",":","\"","a","U+D83D","U+DE00","\"","}","]","}">>,
     value |-> JObj([enums |-> JArr(<<JObj([name |-> JStr(<<"M","o","o","d">>), values |-> JStr(<<"a","U+D83D","U+DE00">>)])>>)])] >>

\* JSON.parse: a text that is no JSON document throws a SyntaxError (the
\* texts of the model that are JSON documents are those of JsonTable)
JSONParse(text) ==
    LET hits == {i \in 1..Len(JsonTable) : JsonTable[i].text = text}
    IN  IF hits = {} THEN [ok |-> FALSE, value |-> JUndefined]
        ELSE [ok |-> TRUE, value |-> JsonTable[Min(hits)].value]

\* Variant: the custom shape is tried before the Prisma export shape
JsonConvertCustomFirst(jsonContent) ==
    LET parsed == JSONParse(jsonContent)
        jsonData == parsed.value
    IN  IF ~parsed.ok THEN Thrown(<<"I","n","v","a","l","i","d"," ","J","S","O","N"," ","f","o","r","m","a","t",":"," ">> \o SyntaxErrorMessage)
        ELSE IF Nullish(jsonData) THEN Thrown(TypeErrorMessage)
        ELSE IF isCustomSchemaFormat(jsonData) THEN convertCustomSchema(jsonData)
        ELSE IF isPrismaJsonFormat(jsonData) THEN convertPrismaJson(jsonData)
        ELSE Thrown(<<"U","n","s","u","p","p","o","r","t","e","d"," ","J","S","O","N"," ","s","c","h","e","m","a"," ","f","o","r","m","a","t">>)

\* JsonToPrismaConverter.convert
JsonConvert(jsonContent) ==
    LET parsed == JSONParse(jsonContent)
        jsonData == parsed.value
    IN  IF ~parsed.ok THEN Thrown(<<"I","n","v","a","l","i","d"," ","J","S","O","N"," ","f","o","r","m","a","t",":"," ">> \o SyntaxErrorMessage)
        ELSE IF Nullish(jsonData) THEN Thrown(TypeErrorMessage)
        ELSE IF isPrismaJsonFormat(jsonData) THEN convertPrismaJson(jsonData)
        ELSE IF isCustomSchemaFormat(jsonData) THEN convertCustomSchema(jsonData)
        ELSE Thrown(<<"U","n","s","u","p","p","o","r","t","e","d"," ","J","S","O","N"," ","s","c","h","e","m","a"," ","f","o","r","m","a","t">>)

-----------------------------------------------------------------------------
(* SchemaConverter                                                          *)

SUPPORTED_EXTENSIONS == << <<"p","r","i","s","m","a">>, <<"s","q","l">>, <<"p","s","q","l">>, <<"j","s","o","n">> >>

\* Variant: the extension is taken as it is written
getFileExtensionAsWritten(fileName) ==
    LET parts == split(fileName, ".")
    IN  parts[Len(parts)]

\* SchemaConverter.getFileExtension: fileName.split('.').pop()?.toLowerCase() || ''
getFileExtension(fileName) ==
    LET parts == split(fileName, ".")
    IN  toLowerCase(parts[Len(parts)])

\* SchemaConverter.isSupportedFile
isSupportedFile(fileName) == InSeq(getFileExtension(fileName), SUPPORTED_EXTENSIONS)

\* A ConversionResult: keys are the properties the object literal holds
\* with a defined value; a property that is not in keys is <<>> here
FailureResult(error) ==
    [success |-> FALSE, keys |-> {"success", "error"},
     prismaSchema |-> <<>>, error |-> error, fileType |-> <<>>]

\* Variant: a failure that still carries the schema converted so far
PartialResultOf(error, fileType) ==
    [success |-> FALSE, keys |-> {"success", "error", "fileType", "prismaSchema"},
     prismaSchema |-> <<>>, error |-> error, fileType |-> fileType]

FailureResultOf(error, fileType) ==
    [success |-> FALSE, keys |-> {"success", "error", "fileType"},
     prismaSchema |-> <<>>, error |-> error, fileType |-> fileType]

SuccessResult(prismaSchema, fileType) ==
    [success |-> TRUE, keys |-> {"success", "prismaSchema", "fileType"},
     prismaSchema |-> prismaSchema, error |-> <<>>, fileType |-> fileType]

NoResult ==
    [success |-> FALSE, keys |-> {}, prismaSchema |-> <<>>, error |-> <<>>,
     fileType |-> <<>>]

UnsupportedTypeError ==
    <<"U","n","s","u","p","p","o","r","t","e","d"," ","f","i","l","e"," ","t","y","p","e","."," ","S","u","p","p","o","r","t","e","d"," ","f","o","r","m","a","t","s",":"," ">> \o join(SUPPORTED_EXTENSIONS, <<","," ">>)

EmptyFileError == <<"F","i","l","e"," ","i","s"," ","e","m","p","t","y","."," ","P","l","e","a","s","e"," ","p","r","o","v","i","d","e"," ","a"," ","v","a","l","i","d"," ","s","c","h","e","m","a"," ","f","i","l","e",".">>

NoDefinitionError == <<"S","c","h","e","m","a"," ","m","u","s","t"," ","c","o","n","t","a","i","n"," ","a","t"," ","l","e","a","s","t"," ","o","n","e"," ","m","o","d","e","l"," ","o","r"," ","e","n","u","m"," ","d","e","f","i","n","i","t","i","o","n">>

NoValidModelsError == <<"N","o"," ","v","a","l","i","d"," ","m","o","d","e","l","s"," ","o","r"," ","e","n","u","m","s"," ","f","o","u","n","d"," ","i","n"," ","s","c","h","e","m","a">>

ConvertedPrefix == <<"C","o","n","v","e","r","t","e","d"," ","s","c","h","e","m","a"," ","v","a","l","i","d","a","t","i","o","n"," ","f","a","i","l","e","d",":"," ">>

\* /model\s+\w+\s*{/i.test(schema) and /enum\s+\w+\s*{/i.test(schema), for
\* the keyword in lower case
HasBlockHeader(schema, keyword) ==
    LET l == Canonicalize(schema)
    IN  \E p \in 1..Len(l) :
            /\ IsAt(l, p, Canonicalize(keyword))
            /\ Lit(l, Sp0(l, W1(l, Sp1(l, p + Len(keyword)))), <<"{">>) # 0

\* the first test of validatePrismaSchema: hasModel || hasEnum
HasDefinition(schema) ==
    HasBlockHeader(schema, ModelKeyword) \/ HasBlockHeader(schema, EnumKeyword)

\* convertToPrisma up to its first call of validatePrismaSchema: either the
\* result it returns at once, or the schema to validate.  invoked lists the
\* converters called.
RouteReturn(result, invoked) ==
    [next |-> "return", result |-> result, invoked |-> invoked,
     purpose |-> "none", schema |-> <<>>, fileType |-> <<>>]

RouteValidate(purpose, schema, fileType, invoked) ==
    [next |-> "validate", result |-> NoResult, invoked |-> invoked,
     purpose |-> purpose, schema |-> schema, fileType |-> fileType]

\* try { prismaSchema = Converter.convert(content) } catch (error) { return ... }
TryConvert(outcome, prefix, fileType, name) ==
    IF outcome.threw
    THEN RouteReturn(FailureResultOf(prefix \o outcome.message, fileType), {name})
    ELSE RouteValidate("final", outcome.text, fileType, {name})

\* the switch on the file type
Dispatch(content, fileType) ==
    CASE fileType = <<"p","r","i","s","m","a">> ->
           RouteValidate("prisma", content, fileType, {})
      [] fileType \in {<<"s","q","l">>, <<"p","s","q","l">>} ->
           TryConvert(SqlConvert(content), <<"S","Q","L"," ","c","o","n","v","e","r","s","i","o","n"," ","e","r","r","o","r",":"," ">>,
                      fileType, "SqlToPrismaConverter.convert")
      [] fileType = <<"j","s","o","n">> ->
           TryConvert(JsonConvert(content), <<"J","S","O","N"," ","c","o","n","v","e","r","s","i","o","n"," ","e","r","r","o","r",":"," ">>,
                      fileType, "JsonToPrismaConverter.convert")
      [] OTHER ->
           RouteReturn(FailureResult(<<"U","n","s","u","p","p","o","r","t","e","d"," ","f","i","l","e"," ","f","o","r","m","a","t">>), {})

\* !content || content.trim().length === 0
IsEmptyContent(content) == content = <<>> \/ Len(trim(content)) = 0

\* Variant: the content is checked before the file type
RouteEmptyFirst(content, fileName) ==
    IF IsEmptyContent(content)
    THEN RouteReturn(FailureResult(EmptyFileError), {})
    ELSE IF ~isSupportedFile(fileName)
    THEN RouteReturn(FailureResult(UnsupportedTypeError), {})
    ELSE Dispatch(content, getFileExtension(fileName))

\* Variant: the content is not checked
RouteUnchecked(content, fileName) ==
    IF ~isSupportedFile(fileName)
    THEN RouteReturn(FailureResult(UnsupportedTypeError), {})
    ELSE Dispatch(content, getFileExtension(fileName))

Route(content, fileName) ==
    IF ~isSupportedFile(fileName)
    THEN RouteReturn(FailureResult(UnsupportedTypeError), {})
    ELSE IF IsEmptyContent(content)
    THEN RouteReturn(FailureResult(EmptyFileError), {})
    ELSE Dispatch(content, getFileExtension(fileName))

\* parsed.models.length === 0 && parsed.enums.length === 0, of what parse
\* returned
ValidityOf(parsed) ==
    IF Len(parsed.models) = 0 /\ Len(parsed.enums) = 0
    THEN [valid |-> FALSE, error |-> NoValidModelsError]
    ELSE [valid |-> TRUE, error |-> <<>>]

\* SchemaConverter.validatePrismaSchema
validatePrismaSchema(schema) ==
    IF ~HasDefinition(schema)
    THEN [valid |-> FALSE, error |-> NoDefinitionError]
    ELSE ValidityOf(parse(schema))

\* what convertToPrisma returns after the switch: r is what the switch
\* gave, pre the validation of the content of a .prisma file and final the
\* final validation
AfterSwitch(r, pre, final) ==
    IF r.next = "return" THEN r.result
    ELSE IF r.purpose = "prisma" /\ ~pre.valid
    THEN FailureResultOf(pre.error, r.fileType)
    ELSE IF ~final.valid
    THEN FailureResultOf(ConvertedPrefix \o final.error, r.fileType)
    ELSE SuccessResult(r.schema, r.fileType)

\* SchemaConverter.convertToPrisma, as one computation
convertToPrisma(content, fileName) ==
    CHOOSE result \in {AfterSwitch(r, validatePrismaSchema(content),
                                   validatePrismaSchema(r.schema)) :
                           r \in {Route(content, fileName)}} : TRUE

-----------------------------------------------------------------------------
(* The callers.  Each caller invokes convertToPrisma and, on success,      *)
(* PrismaParser.parse on the schema it got back (as App does).  An         *)
(* invocation is followed through the two exec loops of PrismaParser.parse, *)
(* one exec per step, so that the regular expressions' lastIndex and the   *)
(* arrays being filled are state.                                           *)

Callers == {"A", "B"}

MainCaller == "A"

\* how many times a caller converts the same file again
MaxRepeats == 1

VARIABLES
    call,        \* per caller: the convertToPrisma invocation under way (see IdleCall)
    parser,      \* per caller: the arrays of its PrismaParser.parse invocation
    modelRegex,  \* lastIndex of each modelRegex object, by the caller owning it
    enumRegex,   \* lastIndex of each enumRegex object, by the caller owning it
    history,     \* per caller: the calls completed and what the first returned
    upload       \* the FileUpload component: its state and its calls of
                 \* validateAndProcessFile (see IdleUpload)

vars == <<call, parser, modelRegex, enumRegex, history, upload>>

NoParse == [valid |-> FALSE, models |-> <<>>, enums |-> <<>>, connections |-> <<>>]

IdleCall ==
    [pc |-> "idle",            \* idle, models, enums, returned, done
     content |-> <<>>,         \* the arguments of convertToPrisma
     fileName |-> <<>>,
     purpose |-> "none",       \* whose PrismaParser.parse runs: the validation
                               \* of a .prisma file ("prisma"), the final
                               \* validation ("final"), the caller's ("caller")
     schema |-> <<>>,          \* schemaContent of the parse under way
     fileType |-> <<>>,
     source |-> <<>>,          \* the declarations the file was written from
     invoked |-> {},           \* what convertToPrisma has called
     result |-> NoResult,      \* what convertToPrisma resolved to
     parsed |-> NoParse]       \* what the caller's PrismaParser.parse returned

\* Variant: one modelRegex object (a static field) used by every invocation
SharedModelRegex(c) == MainCaller

\* "const modelRegex = /.../g" and "const enumRegex = /.../g" are evaluated
\* in each invocation of parse: the invocation of caller c has its own objects
ModelRegexOf(c) == c

EnumRegexOf(c) == c

\* Variant: one allModels array (a static field) that is never emptied
KeptModelList(c) == parser[c].allModels

\* "const allModels = []" and "const enums = []": fresh arrays in each
\* invocation, whatever an earlier invocation left
NewModelList(c) == <<>>

NewEnumList(c) == <<>>

NewParser(c) ==
    [allModels |-> NewModelList(c), enums |-> NewEnumList(c), connections |-> <<>>]

\* return of convertToPrisma
Returned(l, result) == [l EXCEPT !.pc = "returned", !.result = result]

\* entry of PrismaParser.parse(schema)
BeginParse(l, purpose, schema) ==
    [l EXCEPT !.pc = "models", !.purpose = purpose, !.schema = schema]

\* validatePrismaSchema(schema) up to its call of PrismaParser.parse;
\* prefix is what convertToPrisma puts before the error of the validation
BeginValidate(l, purpose, schema, fileType, prefix) ==
    IF ~HasDefinition(schema)
    THEN Returned(l, FailureResultOf(prefix \o NoDefinitionError, fileType))
    ELSE [BeginParse(l, purpose, schema) EXCEPT
              !.fileType = fileType,
              !.invoked = l.invoked \cup {"PrismaParser.parse"}]

\* convertToPrisma(content, fileName) up to the first exec of a parse
NewCall(content, fileName, invoked) ==
    [IdleCall EXCEPT !.content = content, !.fileName = fileName, !.invoked = invoked]

AfterRoute(l, r) ==
    IF r.next = "return" THEN Returned(l, r.result)
    ELSE BeginValidate(l, r.purpose, r.schema, r.fileType,
                       IF r.purpose = "prisma" THEN <<>> ELSE ConvertedPrefix)

RouteOf(content, fileName, r) == AfterRoute(NewCall(content, fileName, r.invoked), r)

Invoked(content, fileName) == RouteOf(content, fileName, Route(content, fileName))

\* what PrismaParser.parse returns from its arrays
ParseValue(p) ==
    [valid |-> TRUE,
     models |-> [i \in 1..Len(p.allModels) |-> ModelOf(p.allModels[i])],
     enums |-> p.enums,
     connections |-> p.connections]

\* Variant: a parse that found nothing is not noticed
NeverNothing(p) == FALSE

\* parsed.models.length === 0 && parsed.enums.length === 0
NothingParsed(p) == Len(p.allModels) = 0 /\ Len(p.enums) = 0

\* Variant: the schema of a .prisma file is trimmed before it is returned
AfterParseTrimmed(l, p) ==
    CASE l.purpose = "prisma" ->
           IF NothingParsed(p)
           THEN Returned(l, FailureResultOf(NoValidModelsError, l.fileType))
           ELSE BeginValidate(l, "final", trim(l.content), l.fileType, ConvertedPrefix)
      [] l.purpose = "final" ->
           IF NothingParsed(p)
           THEN Returned(l, FailureResultOf(ConvertedPrefix \o NoValidModelsError,
                                            l.fileType))
           ELSE Returned(l, SuccessResult(l.schema, l.fileType))
      [] OTHER -> [l EXCEPT !.pc = "done", !.parsed = ParseValue(p)]

\* the return of PrismaParser.parse to whoever called it
AfterParse(l, p) ==
    CASE l.purpose = "prisma" ->
           IF NothingParsed(p)
           THEN Returned(l, FailureResultOf(NoValidModelsError, l.fileType))
           ELSE BeginValidate(l, "final", l.content, l.fileType, ConvertedPrefix)
      [] l.purpose = "final" ->
           IF NothingParsed(p)
           THEN Returned(l, FailureResultOf(ConvertedPrefix \o NoValidModelsError,
                                            l.fileType))
           ELSE Returned(l, SuccessResult(l.schema, l.fileType))
      [] OTHER -> [l EXCEPT !.pc = "done", !.parsed = ParseValue(p)]

\* the step takes caller c into PrismaParser.parse
Entering(c, l) == l.pc = "models" /\ call[c].pc # "models"

\* the regular expression object and the arrays are created when parse is
\* entered
SetCall(c, l) ==
    /\ call' = [call EXCEPT ![c] = l]
    /\ modelRegex' = IF Entering(c, l) THEN [modelRegex EXCEPT ![ModelRegexOf(c)] = 0]
                     ELSE modelRegex
    /\ parser' = IF Entering(c, l) THEN [parser EXCEPT ![c] = NewParser(c)]
                 ELSE parser

\* useState(null), useState(false) and no call made; selectedFile is <<>>
\* for null and <<file>> for a file
IdleUpload == [isProcessing |-> FALSE, selectedFile |-> <<>>, calls |-> <<>>]

Init ==
    /\ call = [c \in Callers |-> IdleCall]
    /\ parser = [c \in Callers |->
                    [allModels |-> <<>>, enums |-> <<>>, connections |-> <<>>]]
    /\ modelRegex = [c \in Callers |-> 0]
    /\ enumRegex = [c \in Callers |-> 0]
    /\ history = [c \in Callers |-> [calls |-> 0, result |-> NoResult, parsed |-> NoParse]]
    /\ upload = IdleUpload

\* caller c invokes convertToPrisma(content, fileName); source is what the
\* content was written from, if it was
Start(c, content, fileName, source) ==
    /\ call[c].pc = "idle"
    /\ history[c].calls > 0 => (content = call[c].content /\ fileName = call[c].fileName)
    /\ SetCall(c, [Invoked(content, fileName) EXCEPT !.source = source])
    /\ UNCHANGED <<enumRegex, history>>
    /\ UNCHANGED upload

\* one turn of "while ((match = modelRegex.exec(schemaContent)) !== null)";
\* after the loop the relations of all models are parsed
ModelLoop(c, m) ==
    IF m.found
    THEN /\ parser' = [parser EXCEPT ![c].allModels = Append(@, ModelEntry(m))]
         /\ modelRegex' = [modelRegex EXCEPT ![ModelRegexOf(c)] = m.lastIndex]
         /\ UNCHANGED <<call, enumRegex>>
    ELSE /\ call' = [call EXCEPT ![c].pc = "enums"]
         /\ parser' = [parser EXCEPT
                          ![c].connections = ConnectionsFrom(parser[c].allModels, 1)]
         /\ modelRegex' = [modelRegex EXCEPT ![ModelRegexOf(c)] = 0]
         /\ enumRegex' = [enumRegex EXCEPT ![EnumRegexOf(c)] = 0]

ExecModel(c) ==
    /\ call[c].pc = "models"
    /\ ModelLoop(c, BlockExec(ModelKeyword, call[c].schema, modelRegex[ModelRegexOf(c)]))
    /\ UNCHANGED history
    /\ UNCHANGED upload

\* one turn of "while ((match = enumRegex.exec(schemaContent)) !== null)";
\* after the loop parse returns
EnumLoop(c, m) ==
    IF m.found
    THEN /\ parser' = [parser EXCEPT ![c].enums = Append(@, EnumOf(m))]
         /\ enumRegex' = [enumRegex EXCEPT ![EnumRegexOf(c)] = m.lastIndex]
         /\ UNCHANGED <<call, modelRegex>>
    ELSE /\ SetCall(c, AfterParse(call[c], parser[c]))
         /\ enumRegex' = [enumRegex EXCEPT ![EnumRegexOf(c)] = 0]

ExecEnum(c) ==
    /\ call[c].pc = "enums"
    /\ EnumLoop(c, BlockExec(EnumKeyword, call[c].schema, enumRegex[EnumRegexOf(c)]))
    /\ UNCHANGED history
    /\ UNCHANGED upload

\* the caller got a schema back and parses it
ParseSchema(c) ==
    /\ call[c].pc = "returned"
    /\ call[c].result.success
    /\ SetCall(c, BeginParse(call[c], "caller", call[c].result.prismaSchema))
    /\ UNCHANGED <<enumRegex, history>>
    /\ UNCHANGED upload

\* the caller got a failure back
ShowError(c) ==
    /\ call[c].pc = "returned"
    /\ ~call[c].result.success
    /\ call' = [call EXCEPT ![c].pc = "done"]
    /\ UNCHANGED <<parser, modelRegex, enumRegex, history>>
    /\ UNCHANGED upload

\* the caller is about to convert the same file again
Repeat(c) ==
    /\ call[c].pc = "done"
    /\ history[c].calls < MaxRepeats
    /\ history' = [history EXCEPT ![c] =
                      [calls |-> @.calls + 1,
                       result |-> IF @.calls = 0 THEN call[c].result ELSE @.result,
                       parsed |-> IF @.calls = 0 THEN call[c].parsed ELSE @.parsed]]
    /\ call' = [call EXCEPT ![c].pc = "idle"]
    /\ UNCHANGED <<parser, modelRegex, enumRegex>>
    /\ UNCHANGED upload


-----------------------------------------------------------------------------
(* The files the callers convert                                            *)

PrismaUser ==
    <<"m","o","d","e","l"," ","U","s","e","r"," ","{","\n"," "," ","i","d"," ","I","n","t"," ","@","i","d"," ","@","d","e","f","a","u","l","t","(","a","u","t","o","i","n","c","r","e","m","e","n","t","(",")",")","\n"," "," ","e","m","a","i","l"," ","S","t","r","i","n","g"," ","@","u","n","i","q","u","e","\n"," "," ","n","a","m","e"," ","S","t","r","i","n","g","?","\n","}">>

PrismaBlog ==
    <<"m","o","d","e","l"," ","U","s","e","r"," ","{","\n"," "," ","i","d"," ","I","n","t"," ","@","i","d","\n"," "," ","p","o","s","t","s"," ","P","o","s","t","[","]","\n","}","\n","\n","m","o","d","e","l"," ","P","o","s","t"," ","{","\n"," "," ","i","d"," ","I","n","t"," ","@","i","d","\n"," "," ","a","u","t","h","o","r","I","d"," ","I","n","t","\n"," "," ","a","u","t","h","o","r"," ","U","s","e","r"," ","@","r","e","l","a","t","i","o","n","(","f","i","e","l","d","s",":"," ","[","a","u","t","h","o","r","I","d","]",","," ","r","e","f","e","r","e","n","c","e","s",":"," ","[","i","d","]",")","\n","}","\n","\n","e","n","u","m"," ","R","o","l","e"," ","{","\n"," "," ","A","D","M","I","N","\n"," "," ","U","S","E","R","\n","}">>

PrismaEnumOnly == <<"e","n","u","m"," ","R","o","l","e"," ","{","\n"," "," ","A","D","M","I","N","\n"," "," ","U","S","E","R","\n","}">>

PrismaUpper == <<"M","O","D","E","L"," ","F","o","o"," ","{","\n"," "," ","i","d"," ","I","n","t","\n","}">>

PrismaOpen == <<"m","o","d","e","l"," ","A"," ","{","\n"," "," ","i","d"," ","I","n","t">>

PrismaBrace ==
    <<"m","o","d","e","l"," ","D","o","c"," ","{","\n"," "," ","i","d"," ","I","n","t"," ","@","i","d","\n"," "," ","m","e","t","a"," ","J","s","o","n"," ","@","d","e","f","a","u","l","t","(","\"","{","}","\"",")","\n"," "," ","t","i","t","l","e"," ","S","t","r","i","n","g","\n","}">>

\* a schema with a blank line before it and a line end after it
PrismaPadded == <<"\n","m","o","d","e","l"," ","U","s","e","r"," ","{","\n"," "," ","i","d"," ","I","n","t"," ","@","i","d","\n","}","\n">>

CommentOnly == <<"-","-"," ","a"," ","c","o","m","m","e","n","t">>

Blank == <<" ","\n","\t","\f"," ">>

SqlUsers ==
    <<"C","R","E","A","T","E"," ","T","A","B","L","E"," ","u","s","e","r","s"," ","(","\n"," "," ","i","d"," ","S","E","R","I","A","L"," ","P","R","I","M","A","R","Y"," ","K","E","Y",",","\n"," "," ","e","m","a","i","l"," ","V","A","R","C","H","A","R","(","2","5","5",")"," ","N","O","T"," ","N","U","L","L"," ","U","N","I","Q","U","E",",","\n"," "," ","b","i","o"," ","T","E","X","T","\n",")",";">>

SqlPosts ==
    <<"C","R","E","A","T","E"," ","T","A","B","L","E"," ","u","s","e","r","s"," ","(","i","d"," ","I","N","T"," ","P","R","I","M","A","R","Y"," ","K","E","Y",")",";","\n","C","R","E","A","T","E"," ","T","A","B","L","E"," ","p","o","s","t","s"," ","(","\n"," "," ","i","d"," ","I","N","T"," ","P","R","I","M","A","R","Y"," ","K","E","Y",",","\n"," "," ","u","s","e","r","_","i","d"," ","I","N","T"," ","N","O","T"," ","N","U","L","L",",","\n"," "," ","F","O","R","E","I","G","N"," ","K","E","Y"," ","(","u","s","e","r","_","i","d",")"," ","R","E","F","E","R","E","N","C","E","S"," ","u","s","e","r","s","(","i","d",")","\n",")",";">>

SqlCommented == <<"-","-"," ","u","s","e","r","s","\n","C","R","E","A","T","E"," ","T","A","B","L","E"," ","t"," ","(","i","d"," ","I","N","T",")",";"," ","/","*"," ","d","o","n","e"," ","*","/">>

SqlSelect == <<"S","E","L","E","C","T"," ","1",";">>

Contents ==
    {<<>>, Blank, CommentOnly, PrismaUser, PrismaBlog, PrismaEnumOnly, PrismaUpper,
     PrismaOpen, PrismaBrace, PrismaPadded, SqlUsers, SqlPosts, SqlCommented, SqlSelect}
    \cup {JsonTable[i].text : i \in DOMAIN JsonTable}

FileNames ==
    {<<"s","c","h","e","m","a",".","p","r","i","s","m","a">>, <<"d","b",".","s","q","l">>, <<"d","b",".","p","s","q","l">>, <<"d","a","t","a",".","j","s","o","n">>, <<"n","o","t","e","s",".","t","x","t">>,
     <<"D","B",".","S","Q","L">>, <<"d","b",".","s","q","l",".","b","a","k">>, <<"p","r","i","s","m","a">>, <<"s","c","h","e","m","a",".">>, <<>>,
     <<"A",".","S","Q","L">>, <<"a",".","s","q","l",".","t","x","t">>, <<"d","a","t","a",".","J","S","Ö","N">>}

\* the files two callers convert at the same time
SharedFiles ==
    {[content |-> PrismaBlog, fileName |-> <<"s","c","h","e","m","a",".","p","r","i","s","m","a">>],
     [content |-> PrismaUser, fileName |-> <<"s","c","h","e","m","a",".","p","r","i","s","m","a">>],
     [content |-> SqlPosts, fileName |-> <<"d","b",".","s","q","l">>],
     [content |-> JsonTable[1].text, fileName |-> <<"d","a","t","a",".","j","s","o","n">>],
     [content |-> CommentOnly, fileName |-> <<"d","b",".","s","q","l">>]}

\* one caller
Next ==
    \/ \E content \in Contents, fileName \in FileNames :
           Start(MainCaller, content, fileName, <<>>)
    \/ ExecModel(MainCaller)
    \/ ExecEnum(MainCaller)
    \/ ParseSchema(MainCaller)
    \/ ShowError(MainCaller)
    \/ Repeat(MainCaller)

Spec == Init /\ [][Next]_vars

\* two callers whose conversions are under way at the same time
NextShared ==
    \E c \in Callers :
        \/ \E f \in SharedFiles : Start(c, f.content, f.fileName, <<>>)
        \/ ExecModel(c)
        \/ ExecEnum(c)
        \/ ParseSchema(c)
        \/ ShowError(c)
        \/ Repeat(c)

SpecShared == Init /\ [][NextShared]_vars

-----------------------------------------------------------------------------
(* Model files written from declarations.  A declaration is a field (name,  *)
(* type, mark "?" or "[]", markers), a comment line or a block attribute.   *)

Field(name, type, mark, markers) ==
    [kind |-> "field", name |-> name, type |-> type, mark |-> mark,
     markers |-> markers]

CommentLine ==
    [kind |-> "comment", name |-> <<>>, type |-> <<>>, mark |-> <<>>, markers |-> {}]

BlockAttribute ==
    [kind |-> "block", name |-> <<>>, type |-> <<>>, mark |-> <<>>, markers |-> {}]

MarkerText(markers) ==
    (IF "id" \in markers THEN <<" ","@","i","d">> ELSE <<>>)
    \o (IF "unique" \in markers THEN <<" ","@","u","n","i","q","u","e">> ELSE <<>>)
    \o (IF "default" \in markers THEN <<" ","@","d","e","f","a","u","l","t","(","\"","{","}","\"",")">> ELSE <<>>)
    \o (IF "relation" \in markers
        THEN <<" ","@","r","e","l","a","t","i","o","n","(","f","i","e","l","d","s",":"," ","[","a","u","t","h","o","r","I","d","]",","," ","r","e","f","e","r","e","n","c","e","s",":"," ","[","i","d","]",")">> ELSE <<>>)

\* a relation field: name, target model, mark, the form of its @relation
\* attribute and the column the attribute names
Rel(name, target, mark, attr, fk) ==
    [kind |-> "relation", name |-> name, type |-> target, mark |-> mark,
     markers |-> {}, attr |-> attr, fk |-> fk]

RelationText(d) ==
    CASE d.attr = "fields" ->
             <<" ","@","r","e","l","a","t","i","o","n","(","f","i","e","l","d","s",":"," ","[">> \o d.fk \o <<"]",","," ","r","e","f","e","r","e","n","c","e","s",":"," ","[","i","d","]",")">>
      [] d.attr = "compact" ->
             <<" ","@","r","e","l","a","t","i","o","n","(","f","i","e","l","d","s",":","[">> \o d.fk \o <<"]",","," ","r","e","f","e","r","e","n","c","e","s",":","[","i","d","]",")">>
      [] d.attr = "fieldsOnly" -> <<" ","@","r","e","l","a","t","i","o","n","(","f","i","e","l","d","s",":"," ","[">> \o d.fk \o <<"]",")">>
      [] d.attr = "emptyFields" -> <<" ","@","r","e","l","a","t","i","o","n","(","f","i","e","l","d","s",":"," ","[","]",")">>
      [] d.attr = "named" -> <<" ","@","r","e","l","a","t","i","o","n","(","\"","l","i","n","k","\"",")">>
      [] d.attr = "namedFields" ->
             <<" ","@","r","e","l","a","t","i","o","n","(","\"","l","i","n","k","\"",","," ","f","i","e","l","d","s",":"," ","[">> \o d.fk \o <<"]",","," ","r","e","f","e","r","e","n","c","e","s",":"," ","[","i","d","]",")">>
      [] OTHER -> <<>>

LineOf(d) ==
    CASE d.kind = "comment" -> <<"/","/"," ","c","o","n","t","a","c","t"," ","d","a","t","a">>
      [] d.kind = "block" -> <<"@","@","i","n","d","e","x","(","[","e","m","a","i","l","]",")">>
      [] d.kind = "relation" -> d.name \o <<" ">> \o d.type \o d.mark \o RelationText(d)
      [] OTHER -> d.name \o <<" ">> \o d.type \o d.mark \o MarkerText(d.markers)

RECURSIVE BodyOf(_)
BodyOf(decls) ==
    IF decls = <<>> THEN <<>>
    ELSE <<" "," ">> \o LineOf(Head(decls)) \o <<"\n">> \o BodyOf(Tail(decls))

ModelText(decls) == <<"m","o","d","e","l"," ","U","s","e","r"," ","{","\n">> \o BodyOf(decls) \o <<"}">>

ProbeNames ==
    {<<"i","d">>, <<"I","D">>, <<"u","u","i","d">>, <<"u","s","e","r","I","d">>, <<"p","a","r","e","n","t","I","d">>, <<"t","a","g","I","d">>, <<"a","u","t","h","o","r","_","i","d">>,
     <<"o","w","n","e","r","_","r","e","f">>, <<"e","m","a","i","l">>, <<"p","o","s","t","s">>, <<"a","u","t","h","o","r">>}

ProbeTypes == {<<"I","n","t">>, <<"S","t","r","i","n","g">>, <<"J","s","o","n">>, <<"P","o","s","t">>, <<"R","o","l","e">>}

\* "?" followed by a line break other than "\n": split('\n') leaves the break
\* in the line, and trim takes it off only at the end of the line
BrokenMarks == {<<"?","\r">>, << "?", "U+2028" >>}

ProbeMarks == {<<>>, <<"?">>, <<"[","]">>} \cup BrokenMarks

ProbeMarkers == {{}, {"id"}, {"unique"}, {"relation"}, {"default"}}

\* files of one field
Probes ==
    {<<Field(n, t, k, m)>> :
        n \in ProbeNames, t \in ProbeTypes, k \in ProbeMarks, m \in ProbeMarkers}

\* the lines longer files are made of
Lines ==
    {Field(<<"i","d">>, <<"I","n","t">>, <<>>, {"id"}), Field(<<"e","m","a","i","l">>, <<"S","t","r","i","n","g">>, <<>>, {}),
     Field(<<"n","a","m","e">>, <<"S","t","r","i","n","g">>, <<"?">>, {}), Field(<<"m","e","t","a">>, <<"J","s","o","n">>, <<>>, {"default"}),
     CommentLine, BlockAttribute}

\* the longest file, in lines
MaxLines == 3

RECURSIVE ListsOf(_)
ListsOf(n) ==
    IF n = 0 THEN {<<>>}
    ELSE {<<d>> \o l : d \in Lines, l \in ListsOf(n - 1)}

\* files whose optional fields have the "?" at the end of the line or before
\* a line break and a marker
BrokenFiles ==
    {<<Field(<<"i","d">>, <<"I","n","t">>, <<"?">>, {}), Field(<<"i","d">>, <<"I","n","t">>, <<"?","\r">>, {"default"})>>,
     <<Field(<<"p","a","r","e","n","t","I","d">>, <<"I","n","t">>, <<"?">>, {}), Field(<<"o","w","n","e","r","I","d">>, <<"I","n","t">>, <<"?","\r">>, {"unique"}),
       Field(<<"t","a","g","I","d">>, <<"I","n","t">>, <<"[","]">>, {})>>}

ModelFiles == Probes \cup BrokenFiles \cup UNION {ListsOf(n) : n \in 2..MaxLines}

\* one caller converts and parses a model file
NextFields ==
    \/ \E decls \in ModelFiles :
           Start(MainCaller, ModelText(decls), <<"s","c","h","e","m","a",".","p","r","i","s","m","a">>, decls)
    \/ ExecModel(MainCaller)
    \/ ExecEnum(MainCaller)
    \/ ParseSchema(MainCaller)

SpecFields == Init /\ [][NextFields]_vars

-----------------------------------------------------------------------------
(* Schemas written from model declarations.  A model declaration is a name  *)
(* and its lines.                                                           *)

Model(name, lines) == [name |-> name, lines |-> lines]

ModelBlockText(m) == <<"m","o","d","e","l"," ">> \o m.name \o <<" ","{","\n">> \o BodyOf(m.lines) \o <<"}">>

SchemaText(models) ==
    join([i \in 1..Len(models) |-> ModelBlockText(models[i])], <<"\n","\n">>)

Id == Field(<<"i","d">>, <<"I","n","t">>, <<>>, {"id"})

Column(name) == Field(name, <<"I","n","t">>, <<>>, {})

\* the two sides of a one-to-many relation between models a and b
One(a, b) == Model(a, <<Id, Rel(toLowerCase(b) \o <<"s">>, b, <<"[","]">>, "none", <<>>)>>)

Many(a, b) ==
    Model(b, <<Id, Column(toLowerCase(a) \o <<"I","d">>),
               Rel(toLowerCase(a), a, <<>>, "compact", toLowerCase(a) \o <<"I","d">>)>>)

Plain(a) == Model(a, <<Id, Field(<<"n","a","m","e">>, <<"S","t","r","i","n","g">>, <<>>, {})>>)

PairNames == {<<"C","a","t","e","g","o","r","y">>, <<"P","r","o","d","u","c","t">>, <<"U","s","e","r">>, <<"P","o","s","t">>}

\* both sides in either order, alone or next to a third model
PairsOf(a, b) ==
    {<<One(a, b), Many(a, b)>>, <<Many(a, b), One(a, b)>>,
     <<Plain(<<"S","u","p","p","l","i","e","r">>), One(a, b), Many(a, b)>>,
     <<Many(a, b), Plain(<<"S","u","p","p","l","i","e","r">>), One(a, b)>>}

PairSchemas ==
    UNION {IF a = b THEN {} ELSE PairsOf(a, b) : a \in PairNames, b \in PairNames}

\* one relation field in every form, its target declared or not
RelationForms ==
    {"none", "fields", "compact", "fieldsOnly", "emptyFields", "named", "namedFields"}

RelationProbes ==
    {Model(<<"P","o","s","t">>, <<Id, Column(<<"a","u","t","h","o","r","I","d">>), Rel(<<"a","u","t","h","o","r">>, <<"U","s","e","r">>, k, f, <<"a","u","t","h","o","r","I","d">>)>>) :
        k \in ProbeMarks, f \in RelationForms}

ProbeSchemas ==
    UNION {{<<p>>, <<p, Plain(<<"U","s","e","r">>)>>, <<Plain(<<"U","s","e","r">>), p>>} : p \in RelationProbes}

\* the relation lines a linking model is written from
LinkLines ==
    {Rel(<<"p","r","o","d","u","c","t">>, <<"P","r","o","d","u","c","t">>, <<>>, "fields", <<"p","r","o","d","u","c","t","I","d">>),
     Rel(<<"b","u","y","e","r">>, <<"P","r","o","d","u","c","t">>, <<>>, "fields", <<"s","u","p","p","l","i","e","r","I","d">>),
     Rel(<<"o","w","n","e","r">>, <<"P","r","o","d","u","c","t">>, <<"?">>, "fields", <<"p","r","o","d","u","c","t","I","d">>),
     Rel(<<"s","u","p","p","l","i","e","r">>, <<"S","u","p","p","l","i","e","r">>, <<>>, "fields", <<"s","u","p","p","l","i","e","r","I","d">>),
     Rel(<<"v","e","n","d","o","r">>, <<"S","u","p","p","l","i","e","r">>, <<>>, "namedFields", <<"s","u","p","p","l","i","e","r","I","d">>),
     Rel(<<"p","a","r","e","n","t">>, <<"L","i","n","k">>, <<>>, "fields", <<"p","r","o","d","u","c","t","I","d">>)}

\* the line that may follow them: none, a single field or a list field
LinkEndings ==
    {<<>>, <<Rel(<<"i","t","e","m">>, <<"P","r","o","d","u","c","t">>, <<>>, "none", <<>>)>>,
     <<Rel(<<"p","e","e","r","s">>, <<"L","i","n","k">>, <<"[","]">>, "none", <<>>)>>}

\* the most relation lines of a linking model
MaxLinks == 2

RECURSIVE LinkListsOf(_)
LinkListsOf(n) ==
    IF n = 0 THEN {<<>>}
    ELSE {<<d>> \o l : d \in LinkLines, l \in LinkListsOf(n - 1)}

LinkLists == UNION {LinkListsOf(n) : n \in 1..MaxLinks}

\* linking models with one foreign-key column
OneKeyLinks == {Model(<<"L","i","n","k">>, <<Column(<<"p","r","o","d","u","c","t","I","d">>)>> \o rels) : rels \in LinkLists}

\* linking models with two foreign-key columns
TwoKeyLinks ==
    {Model(<<"L","i","n","k">>, <<Column(<<"p","r","o","d","u","c","t","I","d">>), Column(<<"s","u","p","p","l","i","e","r","I","d">>)>> \o rels \o ending) :
        rels \in LinkLists, ending \in LinkEndings}

LinkModels == OneKeyLinks \cup TwoKeyLinks

\* the model holding a list of links, its list field in a given form
Holder(form) == Model(<<"P","r","o","d","u","c","t">>, <<Id, Rel(<<"l","i","n","k","s">>, <<"L","i","n","k">>, <<"[","]">>, form, <<"l","i","n","k","I","d">>)>>)

LinkSchemas ==
    {<<Holder("none"), Plain(<<"S","u","p","p","l","i","e","r">>), l>> : l \in LinkModels}
    \cup UNION {{<<l, Holder("named")>>, <<Holder("fields"), l>>} :
                  l \in {m \in TwoKeyLinks : Len(m.lines) <= 2 + MaxLinks}}

Schemas == PairSchemas \cup ProbeSchemas \cup LinkSchemas

\* one caller converts and parses a schema of several models
NextRelations ==
    \/ \E s \in Schemas :
           Start(MainCaller, SchemaText(s), <<"s","c","h","e","m","a",".","p","r","i","s","m","a">>, s)
    \/ ExecModel(MainCaller)
    \/ ExecEnum(MainCaller)
    \/ ParseSchema(MainCaller)

SpecRelations == Init /\ [][NextRelations]_vars

-----------------------------------------------------------------------------
(* SQL files written from table declarations.  A table is a name and the    *)
(* fragments of its body: column definitions (name, type, constraint        *)
(* words), table-level clauses and foreign keys.                            *)

SqlColumn(name, type, constraints) ==
    [kind |-> "column", name |-> name, type |-> type, constraints |-> constraints]

SqlClause(text) == [kind |-> "clause", text |-> text]

SqlForeignKey(column, refTable, refColumn) ==
    [kind |-> "foreignKey", column |-> column, refTable |-> refTable,
     refColumn |-> refColumn]

FragmentText(f) ==
    CASE f.kind = "column" ->
             f.name \o <<" ">> \o f.type
             \o ConcatAll([i \in 1..Len(f.constraints) |-> <<" ">> \o f.constraints[i]])
      [] f.kind = "clause" -> f.text
      [] OTHER -> <<"F","O","R","E","I","G","N"," ","K","E","Y"," ","(">> \o f.column \o <<")"," ","R","E","F","E","R","E","N","C","E","S"," ">> \o f.refTable
                  \o <<"(">> \o f.refColumn \o <<")">>

SqlTable(name, fragments) == [name |-> name, fragments |-> fragments]

SqlTableText(t) ==
    <<"C","R","E","A","T","E"," ","T","A","B","L","E"," ">> \o t.name \o <<" ","(">>
    \o join([i \in 1..Len(t.fragments) |-> FragmentText(t.fragments[i])], <<","," ">>)
    \o <<")",";">>

SqlText(tables) == join([i \in 1..Len(tables) |-> SqlTableText(tables[i])], <<"\n">>)

ConstraintWords == {<<"N","O","T"," ","N","U","L","L">>, <<"P","R","I","M","A","R","Y"," ","K","E","Y">>, <<"U","N","I","Q","U","E">>, <<"D","E","F","A","U","L","T"," ","t","r","u","e">>}

\* the most constraint words of a column
MaxConstraints == 3

\* the lists of n different constraint words, in every order
RECURSIVE ConstraintListsOf(_)
ConstraintListsOf(n) ==
    IF n = 0 THEN {<<>>}
    ELSE UNION {{<<w>> \o l :
                    l \in {x \in ConstraintListsOf(n - 1) : \A i \in 1..Len(x) : x[i] # w}} :
                  w \in ConstraintWords}

ConstraintLists == UNION {ConstraintListsOf(n) : n \in 0..MaxConstraints}

SqlTypes == {<<"V","A","R","C","H","A","R","(","2","5","5",")">>, <<"I","N","T">>, <<"N","U","M","E","R","I","C","(","1","0",",","2",")">>, <<"b","o","o","l","e","a","n">>}

SerialId == SqlColumn(<<"i","d">>, <<"S","E","R","I","A","L">>, <<<<"P","R","I","M","A","R","Y"," ","K","E","Y">>>>)

\* the users table of two columns, the second in every form
ColumnFiles ==
    {<<SqlTable(<<"u","s","e","r","s">>, <<SerialId, SqlColumn(<<"e","m","a","i","l">>, t, l)>>)>> :
        t \in SqlTypes, l \in ConstraintLists}

OrderColumns ==
    <<SqlColumn(<<"o","r","d","e","r","_","i","d">>, <<"I","N","T">>, <<<<"N","O","T"," ","N","U","L","L">>>>),
      SqlColumn(<<"u","s","e","r","_","i","d">>, <<"I","N","T">>, <<>>)>>

\* files of two tables
TableFiles ==
    {<<SqlTable(<<"u","s","e","r","s">>, <<SerialId, SqlColumn(<<"e","m","a","i","l">>, <<"V","A","R","C","H","A","R","(","2","5","5",")">>, l)>>),
       SqlTable(n, OrderColumns)>> :
        l \in {<<<<"U","N","I","Q","U","E">>, <<"N","O","T"," ","N","U","L","L">>>>, <<>>},
        n \in {<<"o","r","d","e","r","s">>, <<"o","r","d","e","r","_","i","t","e","m","s">>, <<"O","R","D","E","R","_","i","t","e","m","s">>}}

Clauses ==
    {SqlClause(<<"P","R","I","M","A","R","Y"," ","K","E","Y"," ","(","o","r","d","e","r","_","i","d",")">>), SqlClause(<<"P","R","I","M","A","R","Y"," ","K","E","Y","(","o","r","d","e","r","_","i","d",")">>),
     SqlClause(<<"U","N","I","Q","U","E"," ","(","u","s","e","r","_","i","d",")">>), SqlClause(<<"U","N","I","Q","U","E","(","u","s","e","r","_","i","d",")">>),
     SqlClause(<<"C","H","E","C","K"," ","(","o","r","d","e","r","_","i","d"," ",">"," ","0",")">>),
     SqlClause(<<"C","O","N","S","T","R","A","I","N","T"," ","p","k"," ","P","R","I","M","A","R","Y"," ","K","E","Y"," ","(","o","r","d","e","r","_","i","d",")">>),
     SqlForeignKey(<<"u","s","e","r","_","i","d">>, <<"u","s","e","r","s">>, <<"i","d">>)}

Inserted(list, i, x) == SubSeq(list, 1, i) \o <<x>> \o SubSeq(list, i + 1, Len(list))

\* the orders table with one clause at every place, or two at the end
ClauseFiles ==
    {<<SqlTable(<<"o","r","d","e","r","s">>, Inserted(OrderColumns, i, f))>> : i \in 0..2, f \in Clauses}
    \cup {<<SqlTable(<<"o","r","d","e","r","s">>, OrderColumns \o <<f, g>>)>> : f \in Clauses, g \in Clauses}

SqlFiles == ColumnFiles \cup TableFiles \cup ClauseFiles

\* one caller converts a SQL file and parses the schema it gets
NextSql ==
    \/ \E tables \in SqlFiles : Start(MainCaller, SqlText(tables), <<"d","b",".","s","q","l">>, tables)
    \/ ExecModel(MainCaller)
    \/ ExecEnum(MainCaller)
    \/ ParseSchema(MainCaller)

SpecSql == Init /\ [][NextSql]_vars

-----------------------------------------------------------------------------
(* Type tokens: SQL files of one column and JSON documents of one column    *)

SqlTypeWords ==
    {<<"I","N","T">>, <<"I","N","T","E","G","E","R">>, <<"S","M","A","L","L","I","N","T">>, <<"B","I","G","I","N","T">>, <<"T","I","N","Y","I","N","T">>,
     <<"V","A","R","C","H","A","R">>, <<"C","H","A","R">>, <<"T","E","X","T">>, <<"L","O","N","G","T","E","X","T">>, <<"M","E","D","I","U","M","T","E","X","T">>,
     <<"D","E","C","I","M","A","L">>, <<"N","U","M","E","R","I","C">>, <<"F","L","O","A","T">>, <<"D","O","U","B","L","E">>, <<"R","E","A","L">>,
     <<"D","A","T","E">>, <<"D","A","T","E","T","I","M","E">>, <<"T","I","M","E","S","T","A","M","P">>, <<"T","I","M","E">>,
     <<"B","O","O","L","E","A","N">>, <<"B","O","O","L">>, <<"J","S","O","N">>, <<"J","S","O","N","B">>, <<"B","L","O","B">>, <<"B","Y","T","E","A">>,
     <<"S","E","R","I","A","L">>, <<"U","U","I","D">>, <<"M","O","N","E","Y">>, <<"S","T","R","I","N","G">>, <<"C","O","N","S","T","R","U","C","T","O","R">>, <<"V","A","L","U","E","O","F">>}

\* a word in upper case, in lower case and with a capital
Casings(word) == {word, toLowerCase(word), Capitalize(word)}

TypeParameters == {<<>>, <<"(","1","0",")">>, <<"(","1","0",",","2",")">>}

SqlTypeTokens ==
    UNION {{w \o p : w \in Casings(word), p \in TypeParameters} : word \in SqlTypeWords}

TypeFiles == {<<SqlTable(<<"t">>, <<SqlColumn(<<"c">>, token, <<>>)>>)>> : token \in SqlTypeTokens}

\* the type tokens of a JSON document in the custom shape: the type of every
\* column of every table
ColumnsIn(table) ==
    IF table.t = "object" /\ "columns" \in DOMAIN table.v /\ table.v.columns.t = "array"
    THEN table.v.columns.v ELSE <<>>

TablesIn(doc) ==
    IF doc.t = "object" /\ "tables" \in DOMAIN doc.v /\ doc.v.tables.t = "array"
    THEN doc.v.tables.v ELSE <<>>

TypeOfColumn(column) ==
    IF column.t = "object" /\ "type" \in DOMAIN column.v THEN column.v.type ELSE JUndefined

TypesIn(doc) ==
    {TypeOfColumn(ColumnsIn(TablesIn(doc)[i])[j]) :
        <<i, j>> \in {x \in (1..Len(TablesIn(doc))) \X (1..3) :
                          x[2] <= Len(ColumnsIn(TablesIn(doc)[x[1]]))}}

\* the documents of one table t with one column c whose type is a string
TypeDocuments ==
    {i \in DOMAIN JsonTable :
        /\ JsonTable[i].value.t = "object"
        /\ DOMAIN JsonTable[i].value.v = {"tables"}
        /\ Len(TablesIn(JsonTable[i].value)) = 1
        /\ Len(ColumnsIn(TablesIn(JsonTable[i].value)[1])) = 1
        /\ ColumnsIn(TablesIn(JsonTable[i].value)[1])[1].t = "object"
        /\ Get(ColumnsIn(TablesIn(JsonTable[i].value)[1])[1], "name") = JStr(<<"c">>)
        /\ TypeOfColumn(ColumnsIn(TablesIn(JsonTable[i].value)[1])[1]).t = "string"}

\* one caller converts a file holding one type token and parses the schema
NextTypes ==
    \/ \E tables \in TypeFiles : Start(MainCaller, SqlText(tables), <<"d","b",".","s","q","l">>, tables)
    \/ \E i \in TypeDocuments :
           Start(MainCaller, JsonTable[i].text, <<"d","a","t","a",".","j","s","o","n">>, <<JsonTable[i].value>>)
    \/ ExecModel(MainCaller)
    \/ ExecEnum(MainCaller)
    \/ ParseSchema(MainCaller)

SpecTypes == Init /\ [][NextTypes]_vars

\* one caller converts a JSON document and parses the schema, if it gets one
NextShapes ==
    \/ \E i \in DOMAIN JsonTable :
           Start(MainCaller, JsonTable[i].text, <<"d","a","t","a",".","j","s","o","n">>, <<JsonTable[i].value>>)
    \/ ExecModel(MainCaller)
    \/ ExecEnum(MainCaller)
    \/ ParseSchema(MainCaller)
    \/ ShowError(MainCaller)

SpecShapes == Init /\ [][NextShapes]_vars

-----------------------------------------------------------------------------
(* Enum files written from lines.  A line is a value (its token, and what   *)
(* follows the token on the line), a blank line or a comment; a comment may *)
(* hold braces.                                                             *)

EnumValue(token, rest) == [kind |-> "value", token |-> token, rest |-> rest]

BlankLine == [kind |-> "blank", token |-> <<>>, rest |-> <<>>]

EnumComment(text) == [kind |-> "comment", token |-> <<>>, rest |-> text]

EnumLineText(d) ==
    CASE d.kind = "value" -> d.token \o d.rest
      [] d.kind = "comment" -> <<"/","/"," ">> \o d.rest
      [] OTHER -> <<>>

RECURSIVE EnumBodyOf(_)
EnumBodyOf(lines) ==
    IF lines = <<>> THEN <<>>
    ELSE (IF Head(lines).kind = "blank" THEN <<>> ELSE <<" "," ">>)
         \o EnumLineText(Head(lines)) \o <<"\n">> \o EnumBodyOf(Tail(lines))

EnumFileText(lines) == <<"e","n","u","m"," ","R","o","l","e"," ","{","\n">> \o EnumBodyOf(lines) \o <<"}">>

EnumLines ==
    {EnumValue(<<"A","D","M","I","N">>, <<>>), EnumValue(<<"A","d","m","i","n">>, <<>>), EnumValue(<<"u","s","e","r">>, <<>>),
     EnumValue(<<"G","U","E","S","T">>, <<" ","@","m","a","p","(","\"","g","u","e","s","t","\"",")">>), BlankLine,
     EnumComment(<<"r","o","l","e","s">>), EnumComment(<<"w","a","s"," ","{","O","W","N","E","R","}">>)}

\* the longest enum, in lines
MaxValues == 3

RECURSIVE EnumListsOf(_)
EnumListsOf(n) ==
    IF n = 0 THEN {<<>>}
    ELSE {<<d>> \o l : d \in EnumLines, l \in EnumListsOf(n - 1)}

EnumFiles == UNION {EnumListsOf(n) : n \in 1..MaxValues}

\* model files of two lines, among them the default that holds braces
BraceFiles == ListsOf(2)

\* one caller converts and parses a file of one block
NextBlocks ==
    \/ \E lines \in EnumFiles :
           Start(MainCaller, EnumFileText(lines), <<"s","c","h","e","m","a",".","p","r","i","s","m","a">>, lines)
    \/ \E decls \in BraceFiles :
           Start(MainCaller, ModelText(decls), <<"s","c","h","e","m","a",".","p","r","i","s","m","a">>, decls)
    \/ ExecModel(MainCaller)
    \/ ExecEnum(MainCaller)
    \/ ParseSchema(MainCaller)

SpecBlocks == Init /\ [][NextBlocks]_vars

-----------------------------------------------------------------------------
(* Defaults: SQL files and JSON documents of one column d with a default    *)

SqlDefaults ==
    {<<"n","o","w","(",")">>, <<"N","O","W","(",")">>, <<"C","U","R","R","E","N","T","_","T","I","M","E","S","T","A","M","P">>, <<"c","u","r","r","e","n","t","_","t","i","m","e","s","t","a","m","p">>, <<"t","r","u","e">>, <<"F","A","L","S","E">>,
     <<"0">>, <<"4","2">>, <<"'","a","b","c","'">>, <<"\"","a","b","c","\"">>, <<"u","u","i","d","(",")">>, <<"N","U","L","L">>}

DefaultTypes == {<<"I","N","T">>, <<"V","A","R","C","H","A","R","(","2","5","5",")">>, <<"T","I","M","E","S","T","A","M","P">>, <<"B","O","O","L","E","A","N">>}

DefaultClause(value) == <<"D","E","F","A","U","L","T"," ">> \o value

DefaultFiles ==
    {<<SqlTable(<<"t">>, <<SqlColumn(<<"d">>, type, before \o <<DefaultClause(value)>> \o after)>>)>> :
        type \in DefaultTypes, value \in SqlDefaults,
        before \in {<<>>, << <<"N","O","T"," ","N","U","L","L">> >>}, after \in {<<>>, << <<"U","N","I","Q","U","E">> >>}}

\* the only field of the only model or table of a document
OnlyField(doc) ==
    IF "models" \in DOMAIN doc.v THEN doc.v.models.v[1].v.fields.v[1]
    ELSE doc.v.tables.v[1].v.columns.v[1]

HasOnlyField(doc) ==
    /\ doc.t = "object"
    /\ \/ /\ "models" \in DOMAIN doc.v
          /\ doc.v.models.t = "array" /\ Len(doc.v.models.v) = 1
          /\ doc.v.models.v[1].t = "object" /\ "fields" \in DOMAIN doc.v.models.v[1].v
          /\ doc.v.models.v[1].v.fields.t = "array" /\ Len(doc.v.models.v[1].v.fields.v) = 1
       \/ /\ "models" \notin DOMAIN doc.v /\ "tables" \in DOMAIN doc.v
          /\ doc.v.tables.t = "array" /\ Len(doc.v.tables.v) = 1
          /\ doc.v.tables.v[1].t = "object" /\ "columns" \in DOMAIN doc.v.tables.v[1].v
          /\ doc.v.tables.v[1].v.columns.t = "array"
          /\ Len(doc.v.tables.v[1].v.columns.v) = 1

\* the default a field of a document declares
DeclaredDefault(field) ==
    IF "default" \in DOMAIN field.v THEN field.v.default ELSE field.v.defaultValue

DefaultDocuments ==
    {i \in DOMAIN JsonTable :
        /\ HasOnlyField(JsonTable[i].value)
        /\ OnlyField(JsonTable[i].value).t = "object"
        /\ Get(OnlyField(JsonTable[i].value), "name") = JStr(<<"d">>)}

\* one caller converts a file whose column declares a default and parses
\* the schema, or is told of the failure
NextDefaults ==
    \/ \E tables \in DefaultFiles : Start(MainCaller, SqlText(tables), <<"d","b",".","s","q","l">>, tables)
    \/ \E i \in DefaultDocuments :
           Start(MainCaller, JsonTable[i].text, <<"d","a","t","a",".","j","s","o","n">>, <<JsonTable[i].value>>)
    \/ ExecModel(MainCaller)
    \/ ExecEnum(MainCaller)
    \/ ParseSchema(MainCaller)
    \/ ShowError(MainCaller)

SpecDefaults == Init /\ [][NextDefaults]_vars

-----------------------------------------------------------------------------
(* Table bodies: SQL files of one table whose body is written from pieces   *)
(* joined by commas; a piece may hold parentheses, balanced or not, and     *)
(* commas of its own.                                                       *)

BodyPieces ==
    {<<"a"," ","I","N","T">>, <<" ","p"," ","D","E","C","I","M","A","L","(","1","0",",","2",")">>, <<" ","c"," ","N","U","M","E","R","I","C","(","5",",","(","1",",","2",")",",","3",")"," ","N","O","T"," ","N","U","L","L">>,
     <<" ","k"," ","I","N","T",")">>, <<" ","(","m"," ","I","N","T">>, <<" ">>, <<>>}

\* the most pieces of a body
MaxPieces == 3

RECURSIVE BodiesOf(_)
BodiesOf(n) ==
    IF n = 1 THEN BodyPieces
    ELSE {p \o <<",">> \o b : p \in BodyPieces, b \in BodiesOf(n - 1)}

TableBodies == UNION {BodiesOf(n) : n \in 1..MaxPieces}

BodyFileText(body) == <<"C","R","E","A","T","E"," ","T","A","B","L","E"," ","t"," ","(">> \o body \o <<")",";">>

\* one caller converts a SQL file of one table and parses the schema
NextSplit ==
    \/ \E body \in TableBodies :
           Start(MainCaller, BodyFileText(body), <<"d","b",".","s","q","l">>, <<[body |-> body]>>)
    \/ ExecModel(MainCaller)
    \/ ExecEnum(MainCaller)
    \/ ParseSchema(MainCaller)

SpecSplit == Init /\ [][NextSplit]_vars

-----------------------------------------------------------------------------
(* The FileUpload component: validateAndProcessFile and the handlers of     *)
(* the FileReader it creates.  A call is the record of what it has done:    *)
(* the values it passed to setIsProcessing and setSelectedFile and the      *)
(* arguments of its calls of onError and onFileSelect, in order.            *)

\* the calls of validateAndProcessFile made
MaxUploads == 2

\* const maxSize = 10 * 1024 * 1024
maxSize == 10 * 1024 * 1024

\* SchemaConverter.getSupportedFileTypes
getSupportedFileTypes ==
    join([i \in 1..Len(SUPPORTED_EXTENSIONS) |-> <<".">> \o SUPPORTED_EXTENSIONS[i]], <<",">>)

\* the messages validateAndProcessFile and the handlers of its reader
\* pass to onError
UploadErrors ==
    [unsupported |-> <<"U","n","s","u","p","p","o","r","t","e","d"," ","f","i","l","e"," ","t","y","p","e","."," ","P","l","e","a","s","e"," ","u","p","l","o","a","d"," ","o","n","e"," ","o","f",":"," ">>
                         \o getSupportedFileTypes,
     tooLarge |-> <<"F","i","l","e"," ","i","s"," ","t","o","o"," ","l","a","r","g","e","."," ","M","a","x","i","m","u","m"," ","s","i","z","e"," ","i","s"," ","1","0","M","B",".">>,
     empty |-> <<"F","i","l","e"," ","i","s"," ","e","m","p","t","y","."," ","P","l","e","a","s","e"," ","s","e","l","e","c","t"," ","a"," ","v","a","l","i","d"," ","s","c","h","e","m","a"," ","f","i","l","e",".">>,
     read |-> <<"F","a","i","l","e","d"," ","t","o"," ","r","e","a","d"," ","f","i","l","e","."," ","P","l","e","a","s","e"," ","t","r","y"," ","a","g","a","i","n",".">>,
     process |-> <<"F","a","i","l","e","d"," ","t","o"," ","p","r","o","c","e","s","s"," ","s","c","h","e","m","a"," ","f","i","l","e">>]

\* entry of validateAndProcessFile(file): setIsProcessing(true)
NewUpload(file) ==
    [pc |-> "entered",         \* entered, reading, awaiting, done
     file |-> file,
     result |-> NoResult,      \* what convertToPrisma resolved to
     setIsProcessing |-> <<TRUE>>,
     setSelectedFile |-> <<>>,
     onError |-> <<>>,
     onFileSelect |-> <<>>]

\* Variant: the failure is reported and the processing flag is left as it is
ReportErrorOnly(l, message) ==
    [l EXCEPT !.pc = "done", !.onError = Append(@, message)]

\* onError(message); setIsProcessing(false); return
ReportError(l, message) ==
    [l EXCEPT !.pc = "done",
              !.onError = Append(@, message),
              !.setIsProcessing = Append(@, FALSE)]

\* validateAndProcessFile(file) up to reader.readAsText(file)
Validated(file) ==
    IF ~isSupportedFile(file.name)
    THEN ReportError(NewUpload(file), UploadErrors.unsupported)
    ELSE IF file.size > maxSize
    THEN ReportError(NewUpload(file), UploadErrors.tooLarge)
    ELSE [NewUpload(file) EXCEPT !.pc = "reading"]

UploadFile(name, size, content) == [name |-> name, size |-> size, content |-> content]

\* a file for each way validateAndProcessFile can go: of a type that is
\* not supported, above the size limit, at the size limit, empty, blank,
\* not convertible (SQL without a table, the JSON document null) and
\* convertible (a schema, two SQL files)
UploadFiles ==
    {UploadFile(<<"n","o","t","e","s",".","t","x","t">>, Len(PrismaUser), PrismaUser),
     UploadFile(<<"d","b",".","s","q","l">>, maxSize + 1, SqlUsers),
     UploadFile(<<"d","b",".","s","q","l">>, maxSize, SqlUsers),
     UploadFile(<<"s","c","h","e","m","a",".","p","r","i","s","m","a">>, 0, <<>>),
     UploadFile(<<"s","c","h","e","m","a",".","p","r","i","s","m","a">>, Len(Blank), Blank),
     UploadFile(<<"d","b",".","s","q","l">>, Len(SqlSelect), SqlSelect),
     UploadFile(<<"d","a","t","a",".","j","s","o","n">>, 4, <<"n","u","l","l">>),
     UploadFile(<<"s","c","h","e","m","a",".","p","r","i","s","m","a">>, Len(PrismaUser), PrismaUser),
     UploadFile(<<"A",".","S","Q","L">>, Len(SqlPosts), SqlPosts)}

\* what SchemaConverter.convertToPrisma(content, file.name) resolves to for
\* the content and the name of each file
Conversions ==
    [file \in UploadFiles |-> convertToPrisma(file.content, file.name)]

\* reader.onload up to "await SchemaConverter.convertToPrisma(content, file.name)";
\* convertToPrisma has no await of its own: it runs to its return within
\* this handler
Loaded(l) ==
    IF IsEmptyContent(l.file.content)
    THEN ReportError(l, UploadErrors.empty)
    ELSE [l EXCEPT !.pc = "awaiting", !.result = Conversions[l.file]]

\* reader.onload after the await
Resumed(l) ==
    IF l.result.success /\ l.result.prismaSchema # <<>>
    THEN [l EXCEPT !.pc = "done",
                   !.setSelectedFile = Append(@, l.file),
                   !.onFileSelect =
                       Append(@, [content |-> l.result.prismaSchema,
                                  fileName |-> l.file.name]),
                   !.setIsProcessing = Append(@, FALSE)]
    ELSE ReportError(l, IF l.result.error # <<>> THEN l.result.error
                        ELSE UploadErrors.process)

\* the state of the component after call u has got to l: a setter the
\* call has called in the step gives the state the value passed to it
SetUpload(u, l) ==
    upload' =
        [isProcessing |->
             IF Len(l.setIsProcessing) > Len(upload.calls[u].setIsProcessing)
             THEN l.setIsProcessing[Len(l.setIsProcessing)]
             ELSE upload.isProcessing,
         selectedFile |->
             IF Len(l.setSelectedFile) > Len(upload.calls[u].setSelectedFile)
             THEN <<l.setSelectedFile[Len(l.setSelectedFile)]>>
             ELSE upload.selectedFile,
         calls |-> [upload.calls EXCEPT ![u] = l]]

\* handleDrop or handleFileInputChange calls validateAndProcessFile(file);
\* the drop zone is rendered while no file is selected
validateAndProcessFile(file) ==
    /\ Len(upload.calls) < MaxUploads
    /\ upload.selectedFile = <<>>
    /\ upload' = [upload EXCEPT
                      !.isProcessing =
                          Validated(file).setIsProcessing[Len(Validated(file).setIsProcessing)],
                      !.calls = Append(@, Validated(file))]
    /\ UNCHANGED <<call, parser, modelRegex, enumRegex, history>>

\* the FileReader of call u fires load
ReaderLoad(u) ==
    /\ u \in 1..Len(upload.calls)
    /\ upload.calls[u].pc = "reading"
    /\ \E l \in {Loaded(upload.calls[u])} : SetUpload(u, l)
    /\ UNCHANGED <<call, parser, modelRegex, enumRegex, history>>

\* the FileReader of call u fires error
ReaderError(u) ==
    /\ u \in 1..Len(upload.calls)
    /\ upload.calls[u].pc = "reading"
    /\ \E l \in {ReportError(upload.calls[u], UploadErrors.read)} : SetUpload(u, l)
    /\ UNCHANGED <<call, parser, modelRegex, enumRegex, history>>

\* the promise of convertToPrisma is resolved: reader.onload of call u goes on
Resume(u) ==
    /\ u \in 1..Len(upload.calls)
    /\ upload.calls[u].pc = "awaiting"
    /\ \E l \in {Resumed(upload.calls[u])} : SetUpload(u, l)
    /\ UNCHANGED <<call, parser, modelRegex, enumRegex, history>>

\* handleClearFile: the button is rendered while a file is selected
handleClearFile ==
    /\ upload.selectedFile # <<>>
    /\ upload' = [upload EXCEPT !.selectedFile = <<>>]
    /\ UNCHANGED <<call, parser, modelRegex, enumRegex, history>>

NextUpload ==
    \/ \E file \in UploadFiles : validateAndProcessFile(file)
    \/ \E u \in 1..MaxUploads : ReaderLoad(u)
    \/ \E u \in 1..MaxUploads : ReaderError(u)
    \/ \E u \in 1..MaxUploads : Resume(u)
    \/ handleClearFile

\* a FileReader that was told to read fires load or error, and the
\* continuation of a resolved await is run
UploadFairness ==
    \A u \in 1..MaxUploads :
        /\ WF_vars(ReaderError(u) \/ ReaderLoad(u))
        /\ WF_vars(Resume(u))

SpecUpload == Init /\ [][NextUpload]_vars /\ UploadFairness

-----------------------------------------------------------------------------
(* Properties of the dispatcher (SchemaConverter.convertToPrisma)           *)

Finished(c) == call[c].pc \in {"returned", "done"}

Unsupported(fileName) ==
    getFileExtension(fileName) \notin {<<"p","r","i","s","m","a">>, <<"s","q","l">>, <<"p","s","q","l">>, <<"j","s","o","n">>}

AllSpace(content) == \A i \in 1..Len(content) : content[i] \in Space

\* C1: convertToPrisma always ends in a returned result, and the result is
\* discriminated: a success holds prismaSchema and no error, a failure holds
\* error and no prismaSchema; when the JSON or SQL converter throws, the
\* result is the failure carrying the converter's message.
C1_DiscriminatedResult ==
    \A c \in Callers :
        Finished(c) =>
            /\ call[c].result.success =>
                   /\ "prismaSchema" \in call[c].result.keys
                   /\ "error" \notin call[c].result.keys
            /\ ~call[c].result.success =>
                   /\ "error" \in call[c].result.keys
                   /\ "prismaSchema" \notin call[c].result.keys
            /\ ( /\ getFileExtension(call[c].fileName) = <<"j","s","o","n">>
                 /\ ~AllSpace(call[c].content)
                 /\ JsonConvert(call[c].content).threw )
               => call[c].result =
                      FailureResultOf(<<"J","S","O","N"," ","c","o","n","v","e","r","s","i","o","n"," ","e","r","r","o","r",":"," ">>
                                          \o JsonConvert(call[c].content).message,
                                      <<"j","s","o","n">>)
            /\ ( /\ getFileExtension(call[c].fileName) \in {<<"s","q","l">>, <<"p","s","q","l">>}
                 /\ ~AllSpace(call[c].content)
                 /\ SqlConvert(call[c].content).threw )
               => call[c].result =
                      FailureResultOf(<<"S","Q","L"," ","c","o","n","v","e","r","s","i","o","n"," ","e","r","r","o","r",":"," ">>
                                          \o SqlConvert(call[c].content).message,
                                      getFileExtension(call[c].fileName))

\* the JSON converter threw a TypeError on the document null
C1_Witness ==
    /\ call[MainCaller].pc = "returned"
    /\ call[MainCaller].content = <<"n","u","l","l">>
    /\ call[MainCaller].result =
           FailureResultOf(<<"J","S","O","N"," ","c","o","n","v","e","r","s","i","o","n"," ","e","r","r","o","r",":"," ">> \o TypeErrorMessage, <<"j","s","o","n">>)

\* C2: for a file name whose extension is none of prisma, sql, psql, json the
\* call returns the unsupported-type failure, whatever the content (empty
\* included), and neither converter nor PrismaParser.parse has been invoked.
C2_UnsupportedBeforeParsing ==
    \A c \in Callers :
        (call[c].pc # "idle" /\ Unsupported(call[c].fileName)) =>
            /\ Finished(c)
            /\ call[c].result = FailureResult(UnsupportedTypeError)
            /\ call[c].invoked = {}

\* an empty .txt file was reported as unsupported
C2_Witness ==
    /\ call[MainCaller].pc = "returned"
    /\ call[MainCaller].fileName = <<"n","o","t","e","s",".","t","x","t">>
    /\ call[MainCaller].content = <<>>
    /\ call[MainCaller].result.error = UnsupportedTypeError

\* C3: for a supported extension, content that is empty or only whitespace
\* makes the call return the empty-file failure, and neither converter nor
\* PrismaParser.parse has been invoked.
C3_EmptyInput ==
    \A c \in Callers :
        ( /\ call[c].pc # "idle"
          /\ ~Unsupported(call[c].fileName)
          /\ AllSpace(call[c].content) ) =>
            /\ Finished(c)
            /\ call[c].result = FailureResult(EmptyFileError)
            /\ call[c].invoked = {}

\* a whitespace-only .sql file was reported as empty
C3_Witness ==
    /\ call[MainCaller].pc = "returned"
    /\ call[MainCaller].fileName = <<"d","b",".","s","q","l">>
    /\ call[MainCaller].content = Blank
    /\ call[MainCaller].result.error = EmptyFileError

NoDefinitionErrors ==
    {NoDefinitionError, NoValidModelsError,
     ConvertedPrefix \o NoDefinitionError, ConvertedPrefix \o NoValidModelsError}

Defines(schema) == Len(parse(schema).models) + Len(parse(schema).enums) >= 1

\* C4: a successful result carries a schema in which PrismaParser.parse
\* finds at least one model or enum; and when the schema to validate (the
\* .prisma content, or what the SQL or JSON converter produced) has no model
\* and no enum, the result is a no-definitions failure.
C4_DefinitionsOrFailure ==
    \A c \in Callers :
        Finished(c) =>
            /\ call[c].result.success => Defines(call[c].result.prismaSchema)
            /\ ( /\ Route(call[c].content, call[c].fileName).next = "validate"
                 /\ ~Defines(Route(call[c].content, call[c].fileName).schema) )
               => /\ ~call[c].result.success
                  /\ call[c].result.error \in NoDefinitionErrors

\* a .sql file holding only "-- a comment" was refused
C4_Witness ==
    /\ call[MainCaller].pc = "returned"
    /\ call[MainCaller].fileName = <<"d","b",".","s","q","l">>
    /\ call[MainCaller].content = CommentOnly
    /\ call[MainCaller].result =
           FailureResultOf(ConvertedPrefix \o NoDefinitionError, <<"s","q","l">>)

\* what PrismaParser.parse returns for a schema, as one computation
ParsedAlone(schema) ==
    [valid |-> TRUE, models |-> parse(schema).models, enums |-> parse(schema).enums,
     connections |-> parse(schema).connections]

\* C5: a caller that converts the same content and file name a second time
\* gets a result equal to the first, and PrismaParser.parse of it returns
\* the same models, enums and connections in the same order.
C5_Deterministic ==
    \A c \in Callers :
        history[c].calls >= 1 =>
            /\ Finished(c) => call[c].result = history[c].result
            /\ call[c].pc = "done" => call[c].parsed = history[c].parsed

\* the second conversion of the two-table SQL file has been parsed
C5_Witness ==
    /\ history[MainCaller].calls = 1
    /\ call[MainCaller].pc = "done"
    /\ call[MainCaller].content = SqlPosts
    /\ call[MainCaller].result.success
    /\ Len(call[MainCaller].parsed.models) = 2
    /\ Len(history[MainCaller].parsed.connections) >= 1

\* C6: with two callers whose invocations are interleaved exec by exec, each
\* invocation returns what convertToPrisma and PrismaParser.parse return for
\* its input when computed alone.
C6_Independent ==
    \A c \in Callers :
        /\ Finished(c) =>
               call[c].result = convertToPrisma(call[c].content, call[c].fileName)
        /\ (call[c].pc = "done" /\ call[c].result.success) =>
               call[c].parsed = ParsedAlone(call[c].result.prismaSchema)

\* one caller has finished a file while the other is in the middle of the
\* model loop of a different file
C6_Witness ==
    /\ call["A"].pc = "done"
    /\ call["A"].result.success
    /\ Len(call["A"].parsed.models) >= 2
    /\ call["B"].pc = "models"
    /\ call["B"].content # call["A"].content
    /\ modelRegex[ModelRegexOf("B")] > 0
    /\ Len(parser["B"].allModels) >= 1

-----------------------------------------------------------------------------
(* Properties of the parsed fields (PrismaParser.parse, parseFields)        *)

\* the caller has parsed a file written from declarations
ParsedFile(c) ==
    /\ call[c].pc = "done"
    /\ call[c].source # <<>>
    /\ call[c].parsed.valid
    /\ Len(call[c].parsed.models) = 1

FieldDecls(c) == SelectSeq(call[c].source, LAMBDA d : d.kind = "field")

ParsedFields(c) == call[c].parsed.models[1].fields

NamesOf(list) == [i \in 1..Len(list) |-> list[i].name]

ScalarKinds ==
    {<<"S","t","r","i","n","g">>, <<"I","n","t">>, <<"F","l","o","a","t">>, <<"B","o","o","l","e","a","n">>, <<"D","a","t","e","T","i","m","e">>, <<"J","s","o","n">>, <<"B","y","t","e","s">>,
     <<"D","e","c","i","m","a","l">>, <<"B","i","g","I","n","t">>}

ContainsId(name) ==
    \E i \in 1..(Len(name) - 1) : name[i] \in {"i", "I"} /\ name[i + 1] \in {"d", "D"}

EndsWithId(name) ==
    Len(name) >= 2 /\ name[Len(name) - 1] = "I" /\ name[Len(name)] = "d"

\* the parsed fields are the first declared fields, one for one
FieldsAreDeclared(c) ==
    /\ Len(ParsedFields(c)) <= Len(FieldDecls(c))
    /\ \A i \in 1..Len(ParsedFields(c)) : ParsedFields(c)[i].name = FieldDecls(c)[i].name

\* C7: for a parsed model file, the names of the fields PrismaParser.parse
\* returns are the names of the declared fields in source order, none
\* reordered, dropped or duplicated.
C7_FieldOrder ==
    \A c \in Callers :
        (call[c].pc = "done" /\ call[c].source # <<>>) =>
            /\ ParsedFile(c)
            /\ NamesOf(ParsedFields(c)) = NamesOf(FieldDecls(c))

\* a file whose second declaration comes after a "}" in the first has been
\* parsed: the second declaration is not among the fields
C7_Dropped ==
    /\ ParsedFile(MainCaller)
    /\ NamesOf(FieldDecls(MainCaller)) = << <<"m","e","t","a">>, <<"e","m","a","i","l">> >>
    /\ NamesOf(ParsedFields(MainCaller)) = << <<"m","e","t","a">> >>

\* the "?" of the declaration is followed by a line break and a marker
BrokenOptional(d) == d.mark \in BrokenMarks /\ d.markers # {}

\* the type the field pattern takes from the line of a declaration: the list
\* mark belongs to it, the "?" only when a line break and further text follow
MatchedType(d) ==
    d.type \o (IF d.mark = <<"[","]">> THEN <<"[","]">> ELSE IF BrokenOptional(d) THEN <<"?">> ELSE <<>>)

\* further text.  No marker and no other line of the model changes that.
C9_ForeignKey ==
    \A c \in Callers :
        ParsedFile(c) =>
            /\ FieldsAreDeclared(c)
            /\ \A i \in 1..Len(ParsedFields(c)) :
                   /\ ParsedFields(c)[i].isForeignKey <=>
                          /\ ParsedFields(c)[i].type \in ScalarKinds
                          /\ EndsWithId(ParsedFields(c)[i].name)
                   /\ ParsedFields(c)[i].type \in ScalarKinds <=>
                          /\ FieldDecls(c)[i].type \in ScalarKinds
                          /\ FieldDecls(c)[i].mark # <<"[","]">>
                          /\ ~BrokenOptional(FieldDecls(c)[i])

\* C9, as stated: a parsed field is a foreign key exactly when its type is a
\* scalar kind, plain, optional or a list, and its name ends with "Id".
C9_AsStated ==
    \A c \in Callers :
        ParsedFile(c) =>
            \A i \in 1..Len(ParsedFields(c)) :
                ParsedFields(c)[i].isForeignKey <=>
                    /\ FieldDecls(c)[i].type \in ScalarKinds
                    /\ EndsWithId(FieldDecls(c)[i].name)

\* the file of "parentId Int?", of "ownerId Int?", a line break and "@unique",
\* and of "tagId Int[]" has been parsed: only parentId is a foreign key
C9_Witness ==
    /\ ParsedFile(MainCaller)
    /\ NamesOf(FieldDecls(MainCaller)) = << <<"p","a","r","e","n","t","I","d">>, <<"o","w","n","e","r","I","d">>, <<"t","a","g","I","d">> >>
    /\ [i \in 1..3 |-> ParsedFields(MainCaller)[i].type] = << <<"I","n","t">>, <<"I","n","t","?">>, <<"I","n","t","[","]">> >>
    /\ [i \in 1..3 |-> ParsedFields(MainCaller)[i].isForeignKey] = <<TRUE, FALSE, FALSE>>

\* C10, as amended: a parsed field is a relation field exactly when its type
\* is no scalar kind and its declaration carries @relation; a type that is no
\* scalar kind, or @relation alone, gives hasConnections only.
C10_Relation ==
    \A c \in Callers :
        ParsedFile(c) =>
            /\ FieldsAreDeclared(c)
            /\ \A i \in 1..Len(ParsedFields(c)) :
                   /\ ParsedFields(c)[i].isRelation <=>
                          /\ FieldDecls(c)[i].type \notin ScalarKinds
                          /\ "relation" \in FieldDecls(c)[i].markers
                   /\ ParsedFields(c)[i].hasConnections <=>
                          \/ FieldDecls(c)[i].type \notin ScalarKinds
                          \/ "relation" \in FieldDecls(c)[i].markers

\* C10, as stated: a parsed field is a relation field whenever its type is
\* no scalar kind, and whenever it is a scalar field carrying @relation.
C10_AsStated ==
    \A c \in Callers :
        ParsedFile(c) =>
            \A i \in 1..Len(ParsedFields(c)) :
                ( \/ FieldDecls(c)[i].type \notin ScalarKinds
                  \/ "relation" \in FieldDecls(c)[i].markers )
                => ParsedFields(c)[i].isRelation

\* "posts Post[]" has been parsed: connected, but no relation field
C10_Witness ==
    /\ ParsedFile(MainCaller)
    /\ call[MainCaller].source = <<Field(<<"p","o","s","t","s">>, <<"P","o","s","t">>, <<"[","]">>, {})>>
    /\ ParsedFields(MainCaller)[1].hasConnections
    /\ ~ParsedFields(MainCaller)[1].isRelation

-----------------------------------------------------------------------------
(* Properties of the relationships (PrismaParser.parseRelations)            *)

\* the caller has parsed a schema written from model declarations
ParsedSchema(c) ==
    /\ call[c].pc = "done"
    /\ call[c].source # <<>>
    /\ call[c].parsed.valid

Connections(c) == call[c].parsed.connections

\* the declared lines of a model whose type is not a scalar kind
RelationLines(m) ==
    SelectSeq(m.lines, LAMBDA d : d.kind = "relation" /\ d.type \notin ScalarKinds)

\* the same for a whole schema, each with the name of its model
RECURSIVE DeclaredRelations(_)
DeclaredRelations(models) ==
    IF models = <<>> THEN <<>>
    ELSE [i \in 1..Len(RelationLines(Head(models))) |->
              [model |-> Head(models).name, line |-> RelationLines(Head(models))[i]]]
         \o DeclaredRelations(Tail(models))

\* the names of the models the parser classifies as junction tables
JunctionNames(c) ==
    {parser[c].allModels[i].name : i \in
        {j \in 1..Len(parser[c].allModels) : isJunctionTable(parser[c].allModels[j]).isJunction}}

\* neither the declaring model nor the target is a junction table
OutsideJunctions(c, d) ==
    d.model \notin JunctionNames(c) /\ d.line.type \notin JunctionNames(c)

\* the line names foreign-key columns
HasFieldsList(line) == line.attr \in {"fields", "compact", "fieldsOnly", "namedFields"}

\* the line has a "fields:" argument, with columns or without
HasFieldsArgument(line) == HasFieldsList(line) \/ line.attr = "emptyFields"

IsList(line) == line.mark = <<"[","]">>

\* the k-th relationship belongs to the k-th declared relation field
Paired(c, k) ==
    /\ k <= Len(DeclaredRelations(call[c].source))
    /\ Connections(c)[k].name = DeclaredRelations(call[c].source)[k].line.name

\* C11 (amended): outside junction detection the type of the relationship
\* of a relation field follows from the field's own line: many-to-one when
\* its @relation attribute lists foreign-key columns (list field or not),
\* otherwise one-to-many for a list field, many-to-one for a single field
\* with a "fields:" argument and one-to-one for a single field without.
C11_LocalCardinality ==
    \A c \in Callers :
        ParsedSchema(c) =>
            \A k \in 1..Len(Connections(c)) :
                /\ Paired(c, k)
                /\ LET d == DeclaredRelations(call[c].source)[k]
                   IN  OutsideJunctions(c, d) =>
                           Connections(c)[k].relationType =
                               IF HasFieldsList(d.line) THEN "many-to-one"
                               ELSE IF IsList(d.line) THEN "one-to-many"
                               ELSE IF HasFieldsArgument(d.line) THEN "many-to-one"
                               ELSE "one-to-one"

\* C11 as stated: outside junction detection a list field gives
\* one-to-many, a single field with foreign-key columns many-to-one and a
\* single field without them one-to-one.
C11_AsStated ==
    \A c \in Callers :
        ParsedSchema(c) =>
            \A k \in 1..Len(Connections(c)) :
                (Paired(c, k) /\ OutsideJunctions(c, DeclaredRelations(call[c].source)[k])) =>
                    Connections(c)[k].relationType =
                        IF IsList(DeclaredRelations(call[c].source)[k].line)
                        THEN "one-to-many"
                        ELSE IF HasFieldsList(DeclaredRelations(call[c].source)[k].line)
                        THEN "many-to-one"
                        ELSE "one-to-one"

\* a list field that lists foreign-key columns has been parsed outside any
\* junction, and its relationship is many-to-one
C11_Witness ==
    /\ ParsedSchema(MainCaller)
    /\ JunctionNames(MainCaller) = {}
    /\ \E k \in 1..Len(Connections(MainCaller)) :
           /\ Paired(MainCaller, k)
           /\ IsList(DeclaredRelations(call[MainCaller].source)[k].line)
           /\ HasFieldsList(DeclaredRelations(call[MainCaller].source)[k].line)
           /\ Connections(MainCaller)[k].relationType = "many-to-one"

\* the relationships between models a and b, by position
Between(c, a, b) ==
    {k \in 1..Len(Connections(c)) :
        \/ startsWith(Connections(c)[k].source, a \o <<"-">>)
              /\ Connections(c)[k].target = b \o <<"-","t","a","r","g","e","t">>
        \/ startsWith(Connections(c)[k].source, b \o <<"-">>)
              /\ Connections(c)[k].target = a \o <<"-","t","a","r","g","e","t">>}

\* the schema declares a with a list of b and b with a column and a
\* relation to a
DeclaresPair(c, a, b) ==
    InSeq(One(a, b), call[c].source) /\ InSeq(Many(a, b), call[c].source)

\* C12: for non-junction models A declaring "bs B[]" and B declaring "aId"
\* and "a A @relation(fields:[aId], references:[id])", exactly two
\* relationships are emitted between them: a one-to-many from A to B and a
\* many-to-one from B to A with foreignKey aId and references id.
C12_OneToManyPair ==
    \A c \in Callers : \A a \in PairNames, b \in PairNames :
        (ParsedSchema(c) /\ DeclaresPair(c, a, b)) =>
            /\ Cardinality(Between(c, a, b)) = 2
            /\ \E k \in Between(c, a, b) :
                   /\ Connections(c)[k].source =
                          a \o <<"-">> \o toLowerCase(b) \o <<"s","-","s","o","u","r","c","e">>
                   /\ Connections(c)[k].target = b \o <<"-","t","a","r","g","e","t">>
                   /\ Connections(c)[k].relationType = "one-to-many"
            /\ \E k \in Between(c, a, b) :
                   /\ Connections(c)[k].source =
                          b \o <<"-">> \o toLowerCase(a) \o <<"-","s","o","u","r","c","e">>
                   /\ Connections(c)[k].target = a \o <<"-","t","a","r","g","e","t">>
                   /\ Connections(c)[k].relationType = "many-to-one"
                   /\ Connections(c)[k].foreignKey = toLowerCase(a) \o <<"I","d">>
                   /\ Connections(c)[k].references = <<"i","d">>

\* Category and Product have been parsed, Product declared first, and two
\* relationships came out
C12_Witness ==
    /\ ParsedSchema(MainCaller)
    /\ call[MainCaller].source =
           <<Many(<<"C","a","t","e","g","o","r","y">>, <<"P","r","o","d","u","c","t">>), One(<<"C","a","t","e","g","o","r","y">>, <<"P","r","o","d","u","c","t">>)>>
    /\ JunctionNames(MainCaller) = {}
    /\ Len(Connections(MainCaller)) = 2
    /\ Connections(MainCaller)[1].foreignKey = <<"c","a","t","e","g","o","r","y","I","d">>
    /\ Connections(MainCaller)[2].relationType = "one-to-many"

\* the declaration of the model named name (the first, if several)
DeclaredModel(c, name) ==
    call[c].source[Min({i \in 1..Len(call[c].source) : call[c].source[i].name = name})]

DeclaredNames(c) == {call[c].source[i].name : i \in 1..Len(call[c].source)}

\* the declared columns flagged isForeignKey: scalar type, no mark or "?",
\* name ending in "Id"
ForeignKeyColumns(m) ==
    SelectSeq(m.lines, LAMBDA d :
        /\ d.kind = "field" /\ d.type \in ScalarKinds /\ d.mark # <<"[","]">>
        /\ ~BrokenOptional(d) /\ EndsWithId(d.name))

\* the declared relation fields with an explicit "fields:" declaration
ExplicitRelations(m) ==
    SelectSeq(m.lines, LAMBDA d :
        d.kind = "relation" /\ d.type \notin ScalarKinds /\ HasFieldsArgument(d))

\* those written "<name> <Model> @relation(fields: ...": a plain model
\* type with the attribute right after it and "fields:" its first argument
LeadingFieldsRelations(m) ==
    SelectSeq(ExplicitRelations(m), LAMBDA d : d.mark = <<>> /\ d.attr # "namedFields")

TargetsOf(lines) == {lines[i].type : i \in 1..Len(lines)}

\* What isJunctionTable computes, where C13 speaks of distinct other models:
\* a model is classified as a junction table if and only if it has at least
\* two fields flagged isForeignKey and at least two relation fields written
\* "<name> <Model> @relation(fields: ..."; the models they reference need
\* not be distinct, nor other than the model itself.
C13_Junction ==
    \A c \in Callers :
        ParsedSchema(c) =>
            \A name \in DeclaredNames(c) :
                name \in JunctionNames(c) <=>
                    /\ Len(ForeignKeyColumns(DeclaredModel(c, name))) >= 2
                    /\ Len(LeadingFieldsRelations(DeclaredModel(c, name))) >= 2

\* C13 as stated: a model is classified as a junction table if and only if
\* it has at least two fields flagged isForeignKey and its relation fields
\* with explicit "fields:" declarations reference at least two distinct
\* other models.
C13_AsStated ==
    \A c \in Callers :
        ParsedSchema(c) =>
            \A name \in DeclaredNames(c) :
                name \in JunctionNames(c) <=>
                    /\ Len(ForeignKeyColumns(DeclaredModel(c, name))) >= 2
                    /\ Cardinality(TargetsOf(ExplicitRelations(DeclaredModel(c, name)))
                                       \ {name}) >= 2

\* a model with two foreign keys whose two relations both reference Product
\* has been parsed and is classified as a junction table
C13_Witness ==
    /\ ParsedSchema(MainCaller)
    /\ <<"L","i","n","k">> \in DeclaredNames(MainCaller)
    /\ Len(ForeignKeyColumns(DeclaredModel(MainCaller, <<"L","i","n","k">>))) = 2
    /\ Len(LeadingFieldsRelations(DeclaredModel(MainCaller, <<"L","i","n","k">>))) = 2
    /\ TargetsOf(RelationLines(DeclaredModel(MainCaller, <<"L","i","n","k">>))) = {<<"P","r","o","d","u","c","t">>}
    /\ <<"L","i","n","k">> \in JunctionNames(MainCaller)

\* the k-th declared relation field is a list whose target is classified
\* as a junction table
ListOfJunction(c, k) ==
    /\ Paired(c, k)
    /\ IsList(DeclaredRelations(call[c].source)[k].line)
    /\ DeclaredRelations(call[c].source)[k].line.type \in JunctionNames(c)

\* C14 (amended): the relationship of a list field whose target model is
\* classified as a junction table is many-to-many, whether or not the other
\* side of the junction declares such a field, unless the field's
\* @relation attribute lists foreign-key columns.
C14_ManyToManyUpgrade ==
    \A c \in Callers :
        ParsedSchema(c) =>
            \A k \in 1..Len(Connections(c)) :
                (ListOfJunction(c, k)
                    /\ ~HasFieldsList(DeclaredRelations(call[c].source)[k].line)) =>
                        Connections(c)[k].relationType = "many-to-many"

\* C14 as stated: the relationship of every list field whose target model
\* is classified as a junction table is many-to-many.
C14_AsStated ==
    \A c \in Callers :
        ParsedSchema(c) =>
            \A k \in 1..Len(Connections(c)) :
                ListOfJunction(c, k) => Connections(c)[k].relationType = "many-to-many"

\* Product holds a list of links, Link is a junction table between Product
\* and Supplier, Supplier declares no list, and the relationship of the
\* list is many-to-many
C14_Witness ==
    /\ ParsedSchema(MainCaller)
    /\ Len(call[MainCaller].source) = 3
    /\ call[MainCaller].source[1] = Holder("none")
    /\ call[MainCaller].source[2] = Plain(<<"S","u","p","p","l","i","e","r">>)
    /\ TargetsOf(LeadingFieldsRelations(call[MainCaller].source[3]))
           = {<<"P","r","o","d","u","c","t">>, <<"S","u","p","p","l","i","e","r">>}
    /\ JunctionNames(MainCaller) = {<<"L","i","n","k">>}
    /\ Connections(MainCaller)[1].name = <<"l","i","n","k","s">>
    /\ Connections(MainCaller)[1].relationType = "many-to-many"

\* the k-th relationship is declared by a junction table and references
\* one of the models the junction table relates
OwnFieldOfJunction(c, k) ==
    /\ DeclaredRelations(call[c].source)[k].model \in JunctionNames(c)
    /\ DeclaredRelations(call[c].source)[k].line.type \in
           TargetsOf(LeadingFieldsRelations(
               DeclaredModel(c, DeclaredRelations(call[c].source)[k].model)))

\* C15 (amended): the label of a many-to-many relationship is
\* "<field> (M:N via <J>)" when the field is declared by the junction model
\* J itself and "<field> (M:N)", naming no model, otherwise.
C15_ManyToManyLabel ==
    \A c \in Callers :
        ParsedSchema(c) =>
            \A k \in 1..Len(Connections(c)) :
                (Paired(c, k) /\ Connections(c)[k].relationType = "many-to-many") =>
                    Connections(c)[k].label =
                        IF OwnFieldOfJunction(c, k)
                        THEN Connections(c)[k].name \o <<" ","(","M",":","N"," ","v","i","a"," ">>
                                 \o DeclaredRelations(call[c].source)[k].model \o <<")">>
                        ELSE Connections(c)[k].name \o <<" ","(","M",":","N",")">>

\* C15 as stated: the label of every many-to-many relationship holds the
\* name of a junction model.
C15_AsStated ==
    \A c \in Callers :
        ParsedSchema(c) =>
            \A k \in 1..Len(Connections(c)) :
                Connections(c)[k].relationType = "many-to-many" =>
                    \E j \in JunctionNames(c) : includes(Connections(c)[k].label, j)

\* both kinds of many-to-many relationship have come out of one schema:
\* the list of links of Product and a field of the junction model itself
C15_Witness ==
    /\ ParsedSchema(MainCaller)
    /\ JunctionNames(MainCaller) = {<<"L","i","n","k">>}
    /\ \E k \in 1..Len(Connections(MainCaller)) :
           /\ Connections(MainCaller)[k].relationType = "many-to-many"
           /\ Connections(MainCaller)[k].label = <<"l","i","n","k","s"," ","(","M",":","N",")">>
    /\ \E k \in 1..Len(Connections(MainCaller)) :
           /\ Connections(MainCaller)[k].relationType = "many-to-many"
           /\ Connections(MainCaller)[k].label = <<"i","t","e","m"," ","(","M",":","N"," ","v","i","a"," ","L","i","n","k",")">>

\* the fields of a returned model whose type is not a scalar kind, each
\* with the name of the model
RelationFieldsOf(model) ==
    LET fields == SelectSeq(model.fields, LAMBDA f : ~isPrimitiveType(StripType(f.type)))
    IN  [i \in 1..Len(fields) |-> [model |-> model.name, field |-> fields[i]]]

\* the same for all returned models, in their order
RECURSIVE RelationFields(_)
RelationFields(models) ==
    IF models = <<>> THEN <<>>
    ELSE RelationFieldsOf(Head(models)) \o RelationFields(Tail(models))

\* pairs of model names to exchange
NameSwaps ==
    {<<<<"C","a","t","e","g","o","r","y">>, <<"P","r","o","d","u","c","t">>>>, <<<<"P","r","o","d","u","c","t">>, <<"S","u","p","p","l","i","e","r">>>>, <<<<"L","i","n","k">>, <<"P","r","o","d","u","c","t">>>>}

Swapped(name, swap) ==
    IF name = swap[1] THEN swap[2] ELSE IF name = swap[2] THEN swap[1] ELSE name

\* the schema with two model names exchanged, every declaration in place
Renamed(models, swap) ==
    [i \in 1..Len(models) |->
        [name |-> Swapped(models[i].name, swap),
         lines |-> [j \in 1..Len(models[i].lines) |->
                       IF models[i].lines[j].kind = "relation"
                       THEN [models[i].lines[j] EXCEPT !.type = Swapped(@, swap)]
                       ELSE models[i].lines[j]]]]

\* relationship lists that agree position by position on field and type
SameShape(r, q) ==
    /\ Len(r) = Len(q)
    /\ \A k \in 1..Len(r) :
           r[k].name = q[k].name /\ r[k].relationType = q[k].relationType

\* C16: the relationships are, one for one and in order, the relation
\* fields of the returned models (model order, then field order), which
\* are the declared ones; exchanging two model names leaves every
\* relationship at its position with its type.
C16_EmissionOrder ==
    \A c \in Callers :
        ParsedSchema(c) =>
            /\ Len(Connections(c)) = Len(RelationFields(call[c].parsed.models))
            /\ Len(Connections(c)) = Len(DeclaredRelations(call[c].source))
            /\ \A k \in 1..Len(Connections(c)) :
                   /\ Connections(c)[k].source =
                          RelationFields(call[c].parsed.models)[k].model \o <<"-">>
                              \o RelationFields(call[c].parsed.models)[k].field.name
                              \o <<"-","s","o","u","r","c","e">>
                   /\ Connections(c)[k].source =
                          DeclaredRelations(call[c].source)[k].model \o <<"-">>
                              \o DeclaredRelations(call[c].source)[k].line.name
                              \o <<"-","s","o","u","r","c","e">>
            /\ \A swap \in NameSwaps :
                   SameShape(Connections(c),
                             parse(SchemaText(Renamed(call[c].source, swap))).connections)

\* three models with three relation fields have been parsed, the first
\* relationship upgraded to many-to-many, still at the first position
C16_Witness ==
    /\ ParsedSchema(MainCaller)
    /\ Len(call[MainCaller].source) = 3
    /\ Len(Connections(MainCaller)) = 3
    /\ Connections(MainCaller)[1].source = <<"P","r","o","d","u","c","t","-","l","i","n","k","s","-","s","o","u","r","c","e">>
    /\ Connections(MainCaller)[1].relationType = "many-to-many"
    /\ Connections(MainCaller)[2].source = <<"L","i","n","k","-","p","r","o","d","u","c","t","-","s","o","u","r","c","e">>
    /\ Connections(MainCaller)[3].source = <<"L","i","n","k","-","s","u","p","p","l","i","e","r","-","s","o","u","r","c","e">>

-----------------------------------------------------------------------------
(* Properties of the SQL conversion (SqlToPrismaConverter)                  *)

\* the caller has converted a SQL file written from table declarations and
\* parsed the schema
ParsedSql(c) ==
    /\ call[c].pc = "done"
    /\ call[c].source # <<>>
    /\ call[c].fileType = <<"s","q","l">>
    /\ call[c].parsed.valid

ColumnsOf(t) == SelectSeq(t.fragments, LAMBDA f : f.kind = "column")

ForeignKeysOf(t) == SelectSeq(t.fragments, LAMBDA f : f.kind = "foreignKey")

OnlyColumns(tables) ==
    \A i \in 1..Len(tables) : Len(ColumnsOf(tables[i])) = Len(tables[i].fragments)

\* the fields of a returned model that are not relation fields
ScalarFields(model) == SelectSeq(model.fields, LAMBDA f : isPrimitiveType(f.type))

\* the relationships of a returned model
ConnectionsOf(c, model) ==
    SelectSeq(Connections(c), LAMBDA r : startsWith(r.source, model.name \o <<"-">>))

\* C17: in the model of a table the columns are the column definitions of
\* the body, in order: a table-level PRIMARY KEY, UNIQUE, CHECK or
\* CONSTRAINT clause adds no field, and a FOREIGN KEY clause adds a foreign
\* key (a relationship with its column and referenced column) and no column.
C17_TableClauses ==
    \A c \in Callers :
        ParsedSql(c) =>
            /\ Len(call[c].parsed.models) = Len(call[c].source)
            /\ \A i \in 1..Len(call[c].source) :
                   /\ NamesOf(ScalarFields(call[c].parsed.models[i]))
                          = NamesOf(ColumnsOf(call[c].source[i]))
                   /\ Len(call[c].parsed.models[i].fields) =
                          Len(ColumnsOf(call[c].source[i]))
                              + Len(ForeignKeysOf(call[c].source[i]))
                   /\ Len(ConnectionsOf(c, call[c].parsed.models[i])) =
                          Len(ForeignKeysOf(call[c].source[i]))
                   /\ \A k \in 1..Len(ForeignKeysOf(call[c].source[i])) :
                          /\ ConnectionsOf(c, call[c].parsed.models[i])[k].foreignKey =
                                 ForeignKeysOf(call[c].source[i])[k].column
                          /\ ConnectionsOf(c, call[c].parsed.models[i])[k].references =
                                 ForeignKeysOf(call[c].source[i])[k].refColumn

\* the orders table with the clause PRIMARY KEY (order_id) after its two
\* columns has been converted: the model has a third column, PRIMARY
C17_ClauseAsColumn ==
    /\ ParsedSql(MainCaller)
    /\ call[MainCaller].source =
           <<SqlTable(<<"o","r","d","e","r","s">>, OrderColumns \o <<SqlClause(<<"P","R","I","M","A","R","Y"," ","K","E","Y"," ","(","o","r","d","e","r","_","i","d",")">>)>>)>>
    /\ NamesOf(call[MainCaller].parsed.models[1].fields)
           = <<<<"o","r","d","e","r","_","i","d">>, <<"u","s","e","r","_","i","d">>, <<"P","R","I","M","A","R","Y">>>>

\* the model name expected for a table name
PascalName(name) ==
    CASE name = <<"u","s","e","r","s">> -> <<"U","s","e","r","s">>
      [] name = <<"o","r","d","e","r","s">> -> <<"O","r","d","e","r","s">>
      [] OTHER -> <<"O","r","d","e","r","I","t","e","m","s">>

\* the line of the j-th field in the body of the i-th model parsed
FieldLine(c, i, j) == TrimmedLines(parser[c].allModels[i].body)[j]

\* C18: a SQL file of column definitions gives one model per table, named
\* by the PascalCase of the table name, with one field per column in
\* order; each constraint word is found wherever it stands among the
\* others: PRIMARY KEY makes the field a primary key, UNIQUE gives it the
\* uniqueness marker, NOT NULL (or PRIMARY KEY) makes it non-nullable and
\* DEFAULT true gives it the default (the last three not shown on a
\* primary key).
C18_Columns ==
    \A c \in Callers :
        (ParsedSql(c) /\ OnlyColumns(call[c].source)) =>
            /\ Len(call[c].parsed.models) = Len(call[c].source)
            /\ \A i \in 1..Len(call[c].source) :
                   /\ call[c].parsed.models[i].name = PascalName(call[c].source[i].name)
                   /\ NamesOf(call[c].parsed.models[i].fields)
                          = NamesOf(call[c].source[i].fragments)
                   /\ \A j \in 1..Len(call[c].source[i].fragments) :
                          LET words == {call[c].source[i].fragments[j].constraints[k] :
                                           k \in 1..Len(call[c].source[i].fragments[j].constraints)}
                              key == <<"P","R","I","M","A","R","Y"," ","K","E","Y">> \in words
                          IN  /\ call[c].parsed.models[i].fields[j].isPrimaryKey = key
                              /\ includes(FieldLine(c, i, j), <<"@","i","d">>) = key
                              /\ includes(FieldLine(c, i, j), <<"@","u","n","i","q","u","e">>)
                                     = (<<"U","N","I","Q","U","E">> \in words /\ ~key)
                              /\ includes(FieldLine(c, i, j), <<"?">>)
                                     = (<<"N","O","T"," ","N","U","L","L">> \notin words /\ ~key)
                              /\ includes(FieldLine(c, i, j), <<"@","d","e","f","a","u","l","t","(","t","r","u","e",")">>)
                                     = (<<"D","E","F","A","U","L","T"," ","t","r","u","e">> \in words /\ ~key)

\* CREATE TABLE users (id SERIAL PRIMARY KEY, email VARCHAR(255) UNIQUE NOT
\* NULL); has been converted: model Users, fields id and email, id a primary
\* key, email unique and not nullable
C18_Witness ==
    /\ ParsedSql(MainCaller)
    /\ call[MainCaller].content =
           <<"C","R","E","A","T","E"," ","T","A","B","L","E"," ","u","s","e","r","s"," ","(","i","d"," ","S","E","R","I","A","L"," ","P","R","I","M","A","R","Y"," ","K","E","Y",","," ","e","m","a","i","l"," ","V","A","R","C","H","A","R","(","2","5","5",")"," ","U","N","I","Q","U","E"," ","N","O","T"," ","N","U","L","L",")",";">>
    /\ call[MainCaller].parsed.models[1].name = <<"U","s","e","r","s">>
    /\ NamesOf(call[MainCaller].parsed.models[1].fields) = <<<<"i","d">>, <<"e","m","a","i","l">>>>
    /\ call[MainCaller].parsed.models[1].fields[1].isPrimaryKey
    /\ FieldLine(MainCaller, 1, 2) = <<"e","m","a","i","l"," ","S","t","r","i","n","g"," ","@","u","n","i","q","u","e">>

-----------------------------------------------------------------------------
(* Properties of the type mappers                                           *)

\* the keys of typeMap in mapSqlTypeToPrisma
SqlTypeKeys ==
    {<<"I","N","T">>, <<"I","N","T","E","G","E","R">>, <<"S","M","A","L","L","I","N","T">>, <<"B","I","G","I","N","T">>, <<"T","I","N","Y","I","N","T">>,
     <<"V","A","R","C","H","A","R">>, <<"C","H","A","R">>, <<"T","E","X","T">>, <<"L","O","N","G","T","E","X","T">>, <<"M","E","D","I","U","M","T","E","X","T">>,
     <<"D","E","C","I","M","A","L">>, <<"N","U","M","E","R","I","C">>, <<"F","L","O","A","T">>, <<"D","O","U","B","L","E">>, <<"R","E","A","L">>,
     <<"D","A","T","E">>, <<"D","A","T","E","T","I","M","E">>, <<"T","I","M","E","S","T","A","M","P">>, <<"T","I","M","E">>,
     <<"B","O","O","L","E","A","N">>, <<"B","O","O","L">>, <<"J","S","O","N">>, <<"J","S","O","N","B">>, <<"B","L","O","B">>, <<"B","Y","T","E","A">>}

\* the keys of typeMap in mapJsonTypeToPrisma
JsonTypeKeys ==
    {<<"s","t","r","i","n","g">>, <<"t","e","x","t">>, <<"v","a","r","c","h","a","r">>, <<"c","h","a","r">>,
     <<"i","n","t">>, <<"i","n","t","e","g","e","r">>, <<"n","u","m","b","e","r">>, <<"s","m","a","l","l","i","n","t">>, <<"b","i","g","i","n","t">>, <<"l","o","n","g">>,
     <<"f","l","o","a","t">>, <<"d","o","u","b","l","e">>, <<"r","e","a","l">>, <<"d","e","c","i","m","a","l">>, <<"n","u","m","e","r","i","c">>,
     <<"b","o","o","l","e","a","n">>, <<"b","o","o","l">>, <<"d","a","t","e">>, <<"d","a","t","e","t","i","m","e">>, <<"t","i","m","e","s","t","a","m","p">>,
     <<"j","s","o","n">>, <<"j","s","o","n","b">>, <<"o","b","j","e","c","t">>, <<"b","y","t","e","s">>, <<"b","i","n","a","r","y">>, <<"b","l","o","b">>}

\* the caller has converted a file holding one type token and parsed the
\* schema
TypeProbed(c, fileType) ==
    /\ call[c].pc = "done"
    /\ call[c].source # <<>>
    /\ call[c].fileType = fileType

\* the token of the SQL file, and of the JSON document
SqlToken(c) == call[c].source[1].fragments[1].type

JsonToken(c) == TypeOfColumn(ColumnsIn(TablesIn(call[c].source[1])[1])[1])

\* the token without its parameter
Unparameterized(token) ==
    IF IndexFrom(token, <<"(">>, 1) = 0 THEN token
    ELSE SubSeq(token, 1, IndexFrom(token, <<"(">>, 1) - 1)

\* the type the returned model shows for the column
ShownType(c) == call[c].parsed.models[1].fields[1].type

\* C19: for every type token, in any letter case and for SQL with or
\* without a parameter, mapSqlTypeToPrisma and mapJsonTypeToPrisma return
\* without an error one of the nine scalar names, the same in every letter
\* case, and String for a token that is no key of the mapping table; the
\* converted column shows that type.
C19_TypeMappers ==
    \A c \in Callers :
        /\ TypeProbed(c, <<"s","q","l">>) =>
               /\ mapSqlTypeToPrisma(SqlToken(c)) \in ScalarKinds
               /\ toUpperCase(Unparameterized(SqlToken(c))) \notin SqlTypeKeys
                      => mapSqlTypeToPrisma(SqlToken(c)) = <<"S","t","r","i","n","g">>
               /\ mapSqlTypeToPrisma(toLowerCase(SqlToken(c))) = mapSqlTypeToPrisma(SqlToken(c))
               /\ mapSqlTypeToPrisma(toUpperCase(SqlToken(c))) = mapSqlTypeToPrisma(SqlToken(c))
               /\ call[c].parsed.valid
               /\ ShownType(c) = mapSqlTypeToPrisma(SqlToken(c))
        /\ TypeProbed(c, <<"j","s","o","n">>) =>
               /\ ~mapJsonTypeToPrisma(JsonToken(c)).threw
               /\ mapJsonTypeToPrisma(JsonToken(c)).text \in ScalarKinds
               /\ toLowerCase(JsonToken(c).v) \notin JsonTypeKeys
                      => mapJsonTypeToPrisma(JsonToken(c)).text = <<"S","t","r","i","n","g">>
               /\ mapJsonTypeToPrisma(JStr(toUpperCase(JsonToken(c).v)))
                      = mapJsonTypeToPrisma(JsonToken(c))
               /\ call[c].parsed.valid
               /\ ShownType(c) = mapJsonTypeToPrisma(JsonToken(c)).text

\* the document whose column has the type "constructor" has been converted:
\* the schema holds the text of a function where the type belongs
C19_NonScalar ==
    /\ TypeProbed(MainCaller, <<"j","s","o","n">>)
    /\ JsonToken(MainCaller) = JStr(<<"c","o","n","s","t","r","u","c","t","o","r">>)
    /\ call[MainCaller].result.success
    /\ includes(call[MainCaller].result.prismaSchema,
                <<" "," ","c"," ","f","u","n","c","t","i","o","n"," ","O","b","j","e","c","t","(",")"," ","{"," ","[","n","a","t","i","v","e"," ","c","o","d","e","]"," ","}">>)
    /\ ShownType(MainCaller) = <<"f","u","n","c","t","i","o","n">>

-----------------------------------------------------------------------------
(* Properties of the JSON shape detection                                   *)

\* the caller has converted a JSON document and got a schema or a failure
JsonDone(c) == call[c].pc = "done" /\ call[c].source # <<>>

Document(c) == call[c].source[1]

\* the document has the top-level key; the key's value is truthy
HasKey(d, key) == d.t = "object" /\ key \in DOMAIN d.v

HoldsKey(d, key) == HasKey(d, key) /\ Truthy(d.v[key])

\* a bare array whose first element has the key; whose value is truthy
FirstHasKey(d, key) == d.t = "array" /\ Len(d.v) > 0 /\ HasKey(d.v[1], key)

FirstHoldsKey(d, key) == d.t = "array" /\ Len(d.v) > 0 /\ HoldsKey(d.v[1], key)

\* the shapes by the presence of the keys
ExportShapeByKeys(d) ==
    \/ HasKey(d, "models")
    \/ HasKey(d, "enums")
    \/ FirstHasKey(d, "name") /\ FirstHasKey(d, "fields")

CustomShapeByKeys(d) ==
    HasKey(d, "tables") \/ HasKey(d, "schemas") \/ HasKey(d, "entities")

\* the shapes by keys whose values are truthy
ExportShapeByValues(d) ==
    \/ HoldsKey(d, "models")
    \/ HoldsKey(d, "enums")
    \/ FirstHoldsKey(d, "name") /\ FirstHoldsKey(d, "fields")

CustomShapeByValues(d) ==
    HoldsKey(d, "tables") \/ HoldsKey(d, "schemas") \/ HoldsKey(d, "entities")

\* the names of the elements of a list of the document, as written
ListedNames(list) ==
    IF list.t = "array" THEN [i \in 1..Len(list.v) |-> TextOf(Get(list.v[i], "name"))]
    ELSE <<>>

\* the models and the enums of a document in the export shape
ExportModels(d) == IF HoldsKey(d, "models") THEN d.v.models ELSE d

ExportEnums(d) == IF HoldsKey(d, "enums") THEN d.v.enums ELSE JArr(<<>>)

\* the tables of a document in the custom shape
CustomTables(d) ==
    IF HoldsKey(d, "tables") THEN d.v.tables
    ELSE IF HoldsKey(d, "schemas") THEN d.v.schemas
    ELSE d.v.entities

UnsupportedShapeError == <<"J","S","O","N"," ","c","o","n","v","e","r","s","i","o","n"," ","e","r","r","o","r",":"," ","U","n","s","u","p","p","o","r","t","e","d"," ","J","S","O","N"," ","s","c","h","e","m","a"," ","f","o","r","m","a","t">>

\* a schema the caller got holds the models and enums of the export shape,
\* and nothing else
FromExport(c) ==
    /\ call[c].result.error # UnsupportedShapeError
    /\ call[c].result.success =>
           /\ NamesOf(call[c].parsed.models) = ListedNames(ExportModels(Document(c)))
           /\ NamesOf(call[c].parsed.enums) = ListedNames(ExportEnums(Document(c)))

\* a schema the caller got holds the tables of the custom shape, and
\* nothing else
FromCustom(c) ==
    /\ call[c].result.error # UnsupportedShapeError
    /\ call[c].result.success =>
           /\ NamesOf(call[c].parsed.models) =
                  [i \in 1..Len(CustomTables(Document(c)).v) |->
                      JsonToPascalCase(Get(CustomTables(Document(c)).v[i], "name")).text]
           /\ call[c].parsed.enums = <<>>

\* C20 as stated, the shapes taken by the presence of the keys
C20_AsStated ==
    \A c \in Callers :
        JsonDone(c) =>
            /\ ExportShapeByKeys(Document(c)) => FromExport(c)
            /\ (~ExportShapeByKeys(Document(c)) /\ CustomShapeByKeys(Document(c)))
                   => FromCustom(c)
            /\ (~ExportShapeByKeys(Document(c)) /\ ~CustomShapeByKeys(Document(c)))
                   => ~call[c].result.success

\* C20: a document with a truthy top-level models or enums, or a bare array
\* whose first element has a truthy name and truthy fields, is converted
\* from its models and enums only, whatever tables it holds; any other
\* document with a truthy tables, schemas or entities is converted from
\* these; a document of neither shape gives a failure and no schema.
C20_ShapeDetection ==
    \A c \in Callers :
        JsonDone(c) =>
            /\ ExportShapeByValues(Document(c)) => FromExport(c)
            /\ (~ExportShapeByValues(Document(c)) /\ CustomShapeByValues(Document(c)))
                   => FromCustom(c)
            /\ (~ExportShapeByValues(Document(c)) /\ ~CustomShapeByValues(Document(c)))
                   => /\ ~call[c].result.success
                      /\ call[c].result.prismaSchema = <<>>

\* the document with models (A) and tables (b) has been converted: the
\* schema holds model A and no model B
C20_Witness ==
    /\ JsonDone(MainCaller)
    /\ HoldsKey(Document(MainCaller), "models")
    /\ HoldsKey(Document(MainCaller), "tables")
    /\ ListedNames(Document(MainCaller).v.tables) = << <<"b">> >>
    /\ call[MainCaller].result.success
    /\ NamesOf(call[MainCaller].parsed.models) = << <<"A">> >>

-----------------------------------------------------------------------------
(* Properties of the block extraction and of the enum values                *)

\* the caller has parsed a file of one block written from lines
ParsedBlock(c) ==
    /\ call[c].pc = "done"
    /\ call[c].source # <<>>

IsEnumFile(c) == startsWith(call[c].content, <<"e","n","u","m">>)

\* the text of the line holds a closing brace
HoldsBrace(c, d) ==
    includes(IF IsEnumFile(c) THEN EnumLineText(d) ELSE LineOf(d), <<"}">>)

\* a closing brace stands inside the body
BraceInside(c) == \E i \in 1..Len(call[c].source) : HoldsBrace(c, call[c].source[i])

\* the tokens of the value lines, in order
DeclaredValues(lines) ==
    [i \in 1..Len(SelectSeq(lines, LAMBDA d : d.kind = "value")) |->
        SelectSeq(lines, LAMBDA d : d.kind = "value")[i].token]

\* C21: a closing brace inside the body of a model or enum block does not
\* end the block: the block is taken up to the brace that balances its
\* opening brace, and what is declared after the inner brace is part of it.
C21_BalancedBlocks ==
    \A c \in Callers :
        (ParsedBlock(c) /\ BraceInside(c)) =>
            /\ call[c].parsed.valid
            /\ IsEnumFile(c) =>
                   /\ Len(call[c].parsed.enums) = 1
                   /\ call[c].parsed.enums[1].values = DeclaredValues(call[c].source)
            /\ ~IsEnumFile(c) =>
                   /\ Len(call[c].parsed.models) = 1
                   /\ parser[c].allModels[1].body = <<"\n">> \o BodyOf(call[c].source)
                   /\ NamesOf(call[c].parsed.models[1].fields) = NamesOf(FieldDecls(c))

\* the model whose first field has the default "{}" and whose second field
\* is email has been parsed: the body ends inside the default
C21_EndsAtFirstBrace ==
    /\ ParsedBlock(MainCaller)
    /\ ~IsEnumFile(MainCaller)
    /\ NamesOf(FieldDecls(MainCaller)) = << <<"m","e","t","a">>, <<"e","m","a","i","l">> >>
    /\ parser[MainCaller].allModels[1].body = <<"\n"," "," ","m","e","t","a"," ","J","s","o","n"," ","@","d","e","f","a","u","l","t","(","\"","{">>

\* C22: the values of an enum are the first tokens of the lines of its body
\* that are neither blank nor // comments, in declaration order, in the
\* case written, duplicates kept.
C22_EnumValues ==
    \A c \in Callers :
        (ParsedBlock(c) /\ IsEnumFile(c)) =>
            /\ call[c].parsed.valid
            /\ NamesOf(call[c].parsed.enums) = << <<"R","o","l","e">> >>
            /\ call[c].parsed.enums[1].values = DeclaredValues(call[c].source)

\* the enum ADMIN, // was {OWNER}, ADMIN has been parsed: only the first
\* ADMIN is among the values
C22_Dropped ==
    /\ ParsedBlock(MainCaller)
    /\ call[MainCaller].source =
           <<EnumValue(<<"A","D","M","I","N">>, <<>>), EnumComment(<<"w","a","s"," ","{","O","W","N","E","R","}">>), EnumValue(<<"A","D","M","I","N">>, <<>>)>>
    /\ call[MainCaller].parsed.enums[1].values = << <<"A","D","M","I","N">> >>

-----------------------------------------------------------------------------
(* Properties of the defaults                                               *)

\* the caller has converted a file whose column d declares a default, and
\* parsed the schema
DefaultProbed(c, fileType) ==
    /\ call[c].pc = "done"
    /\ call[c].source # <<>>
    /\ call[c].fileType = fileType

\* the default clause of the SQL column, without the word DEFAULT
SqlDeclaredDefault(c) ==
    LET clauses == SelectSeq(call[c].source[1].fragments[1].constraints,
                             LAMBDA w : startsWith(w, <<"D","E","F","A","U","L","T"," ">>))
    IN  SubSeq(clauses[1], 9, Len(clauses[1]))

\* the default of the JSON field
JsonDeclaredDefault(c) == DeclaredDefault(OnlyField(call[c].source[1]))

\* the line of the column in the schema the caller got
DefaultLine(c) == FieldLine(c, 1, 1)

\* C23: a SQL column or JSON field declared with a default is emitted with
\* a default: now (and CURRENT_TIMESTAMP) as now(), autoincrement and uuid
\* as the functions of these names, a boolean as the boolean, and anything
\* else as a literal.
C23_DefaultsKept ==
    \A c \in Callers :
        /\ DefaultProbed(c, <<"s","q","l">>) =>
               /\ call[c].result.success
               /\ includes(DefaultLine(c), <<"@","d","e","f","a","u","l","t","(">>)
               /\ toLowerCase(SqlDeclaredDefault(c)) \in {<<"n","o","w","(",")">>, <<"c","u","r","r","e","n","t","_","t","i","m","e","s","t","a","m","p">>}
                      => includes(DefaultLine(c), <<"@","d","e","f","a","u","l","t","(","n","o","w","(",")",")">>)
               /\ toLowerCase(SqlDeclaredDefault(c)) \in {<<"t","r","u","e">>, <<"f","a","l","s","e">>}
                      => includes(DefaultLine(c),
                                  <<"@","d","e","f","a","u","l","t","(">> \o toLowerCase(SqlDeclaredDefault(c)) \o <<")">>)
        /\ DefaultProbed(c, <<"j","s","o","n">>) =>
               /\ call[c].result.success
               /\ includes(DefaultLine(c), <<"@","d","e","f","a","u","l","t","(">>)
               /\ (JsonDeclaredDefault(c) = JStr(<<"n","o","w">>)
                   \/ Get(JsonDeclaredDefault(c), "name") = JStr(<<"n","o","w">>))
                      => includes(DefaultLine(c), <<"@","d","e","f","a","u","l","t","(","n","o","w","(",")",")">>)
               /\ Get(JsonDeclaredDefault(c), "name") = JStr(<<"u","u","i","d">>)
                      => includes(DefaultLine(c), <<"@","d","e","f","a","u","l","t","(","u","u","i","d","(",")",")">>)
               /\ Get(JsonDeclaredDefault(c), "name") = JStr(<<"a","u","t","o","i","n","c","r","e","m","e","n","t">>)
                      => includes(DefaultLine(c), <<"@","d","e","f","a","u","l","t","(","a","u","t","o","i","n","c","r","e","m","e","n","t","(",")",")">>)

\* CREATE TABLE t (d INT DEFAULT 0); has been converted: the line of the
\* column holds no default
C23_Dropped ==
    /\ DefaultProbed(MainCaller, <<"s","q","l">>)
    /\ call[MainCaller].content = <<"C","R","E","A","T","E"," ","T","A","B","L","E"," ","t"," ","(","d"," ","I","N","T"," ","D","E","F","A","U","L","T"," ","0",")",";">>
    /\ call[MainCaller].result.success
    /\ DefaultLine(MainCaller) = <<"d"," ","I","n","t","?">>

-----------------------------------------------------------------------------
(* Properties of splitTableBody                                             *)

\* the caller has converted a SQL file written from a table body
BodyConverted(c) ==
    /\ call[c].pc = "done"
    /\ call[c].source # <<>>

DeclaredBody(c) == call[c].source[1].body

\* the depth after the k-th character: the "(" read less the ")" read
DepthAt(body, k) ==
    Cardinality({i \in 1..k : body[i] = "("}) - Cardinality({i \in 1..k : body[i] = ")"})

\* the commas read at depth 0
TopCommas(body) == {k \in 1..Len(body) : body[k] = "," /\ DepthAt(body, k) = 0}

\* the i-th of them; position 0 before the first, the end after the last
TopComma(body, i) ==
    IF i = 0 THEN 0
    ELSE IF i > Cardinality(TopCommas(body)) THEN Len(body) + 1
    ELSE CHOOSE k \in TopCommas(body) :
             Cardinality({x \in TopCommas(body) : x <= k}) = i

\* the text between the i-th comma at depth 0 and the next
Stretch(body, i) == SubSeq(body, TopComma(body, i - 1) + 1, TopComma(body, i) - 1)

\* parts are the stretches of the body between the commas read at depth 0,
\* in order; what follows the last such comma is left out when it is blank
SplitAtTopCommas(body, parts) ==
    /\ Len(parts) = Cardinality(TopCommas(body))
                    + (IF trim(Stretch(body, Cardinality(TopCommas(body)) + 1)) # <<>>
                       THEN 1 ELSE 0)
    /\ \A i \in 1..Len(parts) : parts[i] = Stretch(body, i)

\* C24: splitTableBody splits the body at a comma exactly when the depth
\* (0 at the start, one more after "(", one less after ")") is 0 at that
\* comma: the fragments are the stretches between such commas, in source
\* order, so no fragment holds a comma read at depth 0 and a comma inside
\* parentheses never splits.
C24_SplitTableBody ==
    \A c \in Callers :
        BodyConverted(c) =>
            /\ TableExec(CleanSql(call[c].content), 0).tableBody = DeclaredBody(c)
            /\ SplitAtTopCommas(DeclaredBody(c), splitTableBody(DeclaredBody(c)))
            /\ \A i \in 1..Len(splitTableBody(DeclaredBody(c))) :
                   \A k \in 1..Len(splitTableBody(DeclaredBody(c))[i]) :
                       splitTableBody(DeclaredBody(c))[i][k] = ","
                           => DepthAt(splitTableBody(DeclaredBody(c))[i], k)
                                  + DepthAt(DeclaredBody(c), TopComma(DeclaredBody(c), i - 1)) # 0

\* the body "a INT, p DECIMAL(10,2)" has been converted: two fragments, the
\* second holding its comma, and a model of the two columns
C24_Witness ==
    /\ BodyConverted(MainCaller)
    /\ DeclaredBody(MainCaller) = <<"a"," ","I","N","T",","," ","p"," ","D","E","C","I","M","A","L","(","1","0",",","2",")">>
    /\ splitTableBody(DeclaredBody(MainCaller)) = << <<"a"," ","I","N","T">>, <<" ","p"," ","D","E","C","I","M","A","L","(","1","0",",","2",")">> >>
    /\ call[MainCaller].parsed.valid
    /\ NamesOf(call[MainCaller].parsed.models[1].fields) = << <<"a">>, <<"p">> >>

-----------------------------------------------------------------------------
(* Properties of the relationships returned                                 *)

\* the model that declares the k-th relationship
DeclaringModel(c, k) == DeclaredRelations(call[c].source)[k].model

\* C25: a relationship with a non-empty foreignKey is many-to-one: a
\* relation field whose @relation attribute lists foreign-key columns gives
\* a many-to-one relationship with these columns as foreignKey, whatever
\* the type its syntax or a junction table decided before; the relation
\* fields of a junction model that name their columns are never
\* many-to-many.
C25_ForeignKeyType ==
    \A c \in Callers :
        ParsedSchema(c) =>
            /\ Len(Connections(c)) = Len(DeclaredRelations(call[c].source))
            /\ \A k \in 1..Len(Connections(c)) :
                   /\ Connections(c)[k].foreignKey # <<>>
                          => Connections(c)[k].relationType = "many-to-one"
                   /\ HasFieldsList(DeclaredRelations(call[c].source)[k].line)
                          => /\ Connections(c)[k].foreignKey
                                    = DeclaredRelations(call[c].source)[k].line.fk
                             /\ Connections(c)[k].relationType = "many-to-one"
                   /\ (DeclaringModel(c, k) \in JunctionNames(c)
                       /\ Connections(c)[k].foreignKey # <<>>)
                          => Connections(c)[k].relationType # "many-to-many"

\* a schema whose model Link is a junction table has been parsed: the
\* relationship of Link's field product, which names the column productId
\* and whose target Product is one of the models Link joins, is many-to-one
C25_Witness ==
    /\ ParsedSchema(MainCaller)
    /\ <<"L","i","n","k">> \in JunctionNames(MainCaller)
    /\ \E k \in 1..Len(Connections(MainCaller)) :
           /\ Paired(MainCaller, k)
           /\ DeclaringModel(MainCaller, k) = <<"L","i","n","k">>
           /\ OwnFieldOfJunction(MainCaller, k)
           /\ Connections(MainCaller)[k].source = <<"L","i","n","k","-","p","r","o","d","u","c","t","-","s","o","u","r","c","e">>
           /\ Connections(MainCaller)[k].foreignKey = <<"p","r","o","d","u","c","t","I","d">>
           /\ Connections(MainCaller)[k].relationType = "many-to-one"

\* the text before the first "-"
BeforeDash(id) ==
    IF IndexFrom(id, <<"-">>, 1) = 0 THEN id ELSE SubSeq(id, 1, IndexFrom(id, <<"-">>, 1) - 1)

\* relationship r is that of field f of model M: its source is
\* "<M>-<f>-source" and its target "<T>-target", T being the type of f
\* without "[]" and "?"
ConnectionOf(r, M, f) ==
    /\ f.hasConnections
    /\ StripType(f.type) \notin ScalarKinds
    /\ r.source = M.name \o <<"-">> \o f.name \o <<"-","s","o","u","r","c","e">>
    /\ r.target = StripType(f.type) \o <<"-","t","a","r","g","e","t">>
    /\ BeforeDash(r.source) = M.name
    /\ BeforeDash(r.target) = StripType(f.type)

\* C26: every relationship returned has the source "<M>-<f>-source" and the
\* target "<T>-target", M being a returned model, f a field of M whose
\* hasConnections flag is set and T the type of f without "[]" and "?", which
\* is no scalar kind; the text before the first "-" of the source is M and
\* that of the target is T.
C26_ConnectionIds ==
    \A c \in Callers :
        ParsedSchema(c) =>
            \A k \in 1..Len(Connections(c)) :
                \E i \in 1..Len(call[c].parsed.models) :
                    \E j \in 1..Len(call[c].parsed.models[i].fields) :
                        /\ ConnectionOf(Connections(c)[k], call[c].parsed.models[i],
                                        call[c].parsed.models[i].fields[j])
                        /\ call[c].parsed.models[i].name = DeclaringModel(c, k)

\* the schema of Post and User has been parsed, the field author of Post
\* being written "author User?", a line break and its @relation attribute:
\* the field has the type User? and its relationship goes from
\* Post-author-source to User-target
C26_Witness ==
    /\ ParsedSchema(MainCaller)
    /\ NamesOf(call[MainCaller].parsed.models) = << <<"P","o","s","t">>, <<"U","s","e","r">> >>
    /\ \E k \in 1..Len(Connections(MainCaller)) :
           /\ Connections(MainCaller)[k].source = <<"P","o","s","t","-","a","u","t","h","o","r","-","s","o","u","r","c","e">>
           /\ Connections(MainCaller)[k].target = <<"U","s","e","r","-","t","a","r","g","e","t">>
           /\ \E j \in 1..Len(call[MainCaller].parsed.models[1].fields) :
                  /\ call[MainCaller].parsed.models[1].fields[j].type = <<"U","s","e","r","?">>
                  /\ ConnectionOf(Connections(MainCaller)[k], call[MainCaller].parsed.models[1],
                                  call[MainCaller].parsed.models[1].fields[j])

-----------------------------------------------------------------------------
(* Properties of the dispatcher: .prisma files and the routing              *)

IsPrismaFile(fileName) == getFileExtension(fileName) = <<"p","r","i","s","m","a">>

\* C27: a successful result for a .prisma file holds the content as it was
\* given, character for character, and the file type prisma: the two
\* validations leave the text alone.
C27_PrismaUnchanged ==
    \A c \in Callers :
        ( /\ call[c].pc \in {"returned", "done"}
          /\ IsPrismaFile(call[c].fileName)
          /\ call[c].result.success ) =>
            /\ call[c].result.prismaSchema = call[c].content
            /\ call[c].result.fileType = <<"p","r","i","s","m","a">>
            /\ call[c].result.keys = {"success", "prismaSchema", "fileType"}

\* the schema with a blank line before it and a line end after it has been
\* returned with both
C27_Witness ==
    /\ call[MainCaller].pc = "returned"
    /\ call[MainCaller].fileName = <<"s","c","h","e","m","a",".","p","r","i","s","m","a">>
    /\ call[MainCaller].content = PrismaPadded
    /\ call[MainCaller].result.success
    /\ call[MainCaller].result.prismaSchema = PrismaPadded
    /\ trim(PrismaPadded) # PrismaPadded

-----------------------------------------------------------------------------
(* Properties of the SQL conversion: primary keys                           *)

\* how many times lit stands in text
Occurrences(text, lit) == Cardinality({p \in 1..Len(text) : IsAt(text, p, lit)})

\* the lines of the schema generated for the file of caller c
GeneratedLines(c) == split(call[c].result.prismaSchema, "\n")

\* the line generated for the column of that name
IsLineOf(line, name) == startsWith(line, <<" "," ">> \o name \o <<" ">>)

DeclaredKey(f) ==
    /\ f.kind = "column"
    /\ \E k \in 1..Len(f.constraints) : f.constraints[k] = <<"P","R","I","M","A","R","Y"," ","K","E","Y">>

\* C28: in the schema generated from SQL the line of a column declared
\* PRIMARY KEY has no "?", with or without NOT NULL, ends with
\* "@id @default(autoincrement())", and holds neither "@unique" nor a
\* second "@default".
C28_PrimaryKeyLine ==
    \A c \in Callers :
        ParsedSql(c) =>
            \A i \in 1..Len(call[c].source) :
                \A j \in 1..Len(call[c].source[i].fragments) :
                    DeclaredKey(call[c].source[i].fragments[j]) =>
                        /\ \E n \in 1..Len(GeneratedLines(c)) :
                               IsLineOf(GeneratedLines(c)[n], call[c].source[i].fragments[j].name)
                        /\ \A n \in 1..Len(GeneratedLines(c)) :
                               IsLineOf(GeneratedLines(c)[n], call[c].source[i].fragments[j].name) =>
                                   /\ ~includes(GeneratedLines(c)[n], <<"?">>)
                                   /\ endsWith(GeneratedLines(c)[n], <<" ","@","i","d"," ","@","d","e","f","a","u","l","t","(","a","u","t","o","i","n","c","r","e","m","e","n","t","(",")",")">>)
                                   /\ ~includes(GeneratedLines(c)[n], <<"@","u","n","i","q","u","e">>)
                                   /\ Occurrences(GeneratedLines(c)[n], <<"@","d","e","f","a","u","l","t","(">>) = 1
                                   /\ Occurrences(GeneratedLines(c)[n], <<"@","i","d">>) = 1

\* the column email VARCHAR(255) UNIQUE PRIMARY KEY DEFAULT true has been
\* converted to the line of a primary key alone
C28_Witness ==
    /\ ParsedSql(MainCaller)
    /\ call[MainCaller].source =
           <<SqlTable(<<"u","s","e","r","s">>, <<SerialId, SqlColumn(<<"e","m","a","i","l">>, <<"V","A","R","C","H","A","R","(","2","5","5",")">>,
                 << <<"U","N","I","Q","U","E">>, <<"P","R","I","M","A","R","Y"," ","K","E","Y">>, <<"D","E","F","A","U","L","T"," ","t","r","u","e">> >>)>>)>>
    /\ \E n \in 1..Len(GeneratedLines(MainCaller)) :
           GeneratedLines(MainCaller)[n] = <<" "," ","e","m","a","i","l"," ","S","t","r","i","n","g"," ","@","i","d"," ","@","d","e","f","a","u","l","t","(","a","u","t","o","i","n","c","r","e","m","e","n","t","(",")",")">>

\* the place of the last "." of a file name, 0 when it has none
LastDot(fileName) ==
    IF \E p \in 1..Len(fileName) : fileName[p] = "."
    THEN CHOOSE p \in 1..Len(fileName) :
             /\ fileName[p] = "."
             /\ \A q \in (p + 1)..Len(fileName) : fileName[q] # "."
    ELSE 0

\* the text after the last "." in lower case: the whole name when it has
\* no "."
SourceFormat(fileName) ==
    toLowerCase(SubSeq(fileName, LastDot(fileName) + 1, Len(fileName)))

SupportedFormats == { <<"p","r","i","s","m","a">>, <<"s","q","l">>, <<"p","s","q","l">>, <<"j","s","o","n">> }

Converters == {"SqlToPrismaConverter.convert", "JsonToPrismaConverter.convert"}

\* C29: the source format is the text after the last "." of the file name
\* in lower case, the whole name when it has no "."; isSupportedFile holds
\* exactly when it is prisma, sql, psql or json, in any case of letters
\* and whatever earlier dots the name has; a file of content that is not
\* blank goes to the SQL converter for sql and psql, to the JSON converter
\* for json, and to no converter for prisma, whose content is validated as
\* it is.
C29_FormatRouting ==
    \A c \in Callers :
        call[c].pc # "idle" =>
            /\ getFileExtension(call[c].fileName) = SourceFormat(call[c].fileName)
            /\ isSupportedFile(call[c].fileName)
                   = (SourceFormat(call[c].fileName) \in SupportedFormats)
            /\ SourceFormat(call[c].fileName) \notin SupportedFormats
                   => call[c].invoked = {}
            /\ (SourceFormat(call[c].fileName) \in SupportedFormats
                /\ ~AllSpace(call[c].content)) =>
                   /\ SourceFormat(call[c].fileName) \in { <<"s","q","l">>, <<"p","s","q","l">> }
                          => call[c].invoked \cap Converters
                                 = {"SqlToPrismaConverter.convert"}
                   /\ SourceFormat(call[c].fileName) = <<"j","s","o","n">>
                          => call[c].invoked \cap Converters
                                 = {"JsonToPrismaConverter.convert"}
                   /\ SourceFormat(call[c].fileName) = <<"p","r","i","s","m","a">> =>
                          /\ call[c].invoked \cap Converters = {}
                          /\ ("PrismaParser.parse" \in call[c].invoked)
                                 = HasDefinition(call[c].content)
                          /\ (call[c].pc = "returned" /\ ~call[c].result.success)
                                 => call[c].result.error
                                        \in {NoDefinitionError, NoValidModelsError}
                   /\ call[c].pc \in {"returned", "done"}
                          => call[c].result.fileType = SourceFormat(call[c].fileName)

\* the file A.SQL has gone to the SQL converter and a.sql.txt would not:
\* the users table was converted under the name A.SQL
C29_Witness ==
    /\ call[MainCaller].pc = "returned"
    /\ call[MainCaller].fileName = <<"A",".","S","Q","L">>
    /\ call[MainCaller].content = SqlUsers
    /\ call[MainCaller].invoked
           = {"SqlToPrismaConverter.convert", "PrismaParser.parse"}
    /\ call[MainCaller].result.success
    /\ call[MainCaller].result.fileType = <<"s","q","l">>
    /\ ~isSupportedFile(<<"a",".","s","q","l",".","t","x","t">>)
    /\ isSupportedFile(<<"p","r","i","s","m","a">>)

-----------------------------------------------------------------------------
(* Properties of the FileUpload component                                   *)

\* call u of validateAndProcessFile has been made
Uploading(u) == u <= Len(upload.calls)

\* call u has completed
Uploaded(u) == Uploading(u) /\ upload.calls[u].pc = "done"

\* the only message a file can be refused with before it is read
RefusedWith(file) ==
    IF SourceFormat(file.name) \notin SupportedFormats THEN <<UploadErrors.unsupported>>
    ELSE IF file.size > 10485760 THEN <<UploadErrors.tooLarge>>
    ELSE <<>>

\* what call l has done is what a call under way has done: it has set
\* isProcessing to true and nothing else
UnderWay(l) ==
    /\ l.setIsProcessing = <<TRUE>>
    /\ l.onError = <<>>
    /\ l.onFileSelect = <<>>
    /\ l.setSelectedFile = <<>>
    /\ RefusedWith(l.file) = <<>>

\* what call l has done is what a completed call has done
Completed(l) ==
    /\ l.setIsProcessing = <<TRUE, FALSE>>
    /\ Len(l.onError) + Len(l.onFileSelect) = 1
    /\ RefusedWith(l.file) # <<>> => l.onError = RefusedWith(l.file)
    /\ IF l.result.success
       THEN /\ l.onFileSelect = <<[content |-> l.result.prismaSchema,
                                   fileName |-> l.file.name]>>
            /\ l.setSelectedFile = <<l.file>>
       ELSE /\ l.onFileSelect = <<>>
            /\ l.setSelectedFile = <<>>

UploadEffects ==
    /\ \A u \in 1..Len(upload.calls) :
           IF upload.calls[u].pc = "done" THEN Completed(upload.calls[u])
           ELSE UnderWay(upload.calls[u])
    /\ upload.selectedFile # <<>> =>
           \E u \in 1..Len(upload.calls) :
               /\ upload.calls[u].pc = "done"
               /\ upload.calls[u].result.success
               /\ upload.selectedFile = <<upload.calls[u].file>>

\* C30: every call of validateAndProcessFile sets isProcessing to true
\* first; whichever way it goes (type not supported, file above 10MB, empty
\* content, conversion failed, conversion succeeded, reader error) it
\* completes, having called exactly one of onError and onFileSelect, once,
\* and having set isProcessing to false last; selectedFile is set only by
\* a call whose conversion succeeded.
C30_UploadFlow ==
    /\ []UploadEffects
    /\ \A u \in 1..MaxUploads : Uploading(u) ~> Uploaded(u)

\* a read error ended the first call while the second, of a schema, was
\* under way; the second then selected its file
C30_Witness ==
    /\ Len(upload.calls) = 2
    /\ upload.calls[1].onError = <<UploadErrors.read>>
    /\ upload.calls[2].pc = "done"
    /\ upload.calls[2].onFileSelect = <<[content |-> PrismaUser, fileName |-> <<"s","c","h","e","m","a",".","p","r","i","s","m","a">>]>>
    /\ upload.selectedFile = <<UploadFile(<<"s","c","h","e","m","a",".","p","r","i","s","m","a">>, Len(PrismaUser), PrismaUser)>>
    /\ ~upload.isProcessing


=============================================================================
